---- MODULE Spec2Model ----
(***************************************************************************)
(* A model of the modular-structure core of bevy_game_grid: the structure  *)
(* grid, the pressurization flood fill, the projectile/module damage       *)
(* pipeline with its deferred commands and event queues, and the           *)
(* command-center control state machine.                                   *)
(*                                                                         *)
(* One Update pass of the Bevy schedule is a "frame".  Every system is one *)
(* action; the systems of a frame run in any order the schedule allows,    *)
(* each at most once (ran).  Commands issued through `Commands` are        *)
(* deferred: they go to `commands` and take effect in apply_deferred.      *)
(***************************************************************************)
EXTENDS Integers, Sequences, FiniteSets, TLC

VARIABLES
    phase,                    \* GameState: "BuildingStructures" | "InGame"
    layout,                   \* the structure layout handed to setup (rows of characters)
    material,                 \* ModuleMaterialType passed to spawn_module
    ammo,                     \* ProjectileMaterialType passed to ProjectilePhysics::create
    grid,                     \* Structure.grid: [width, height, cells]
    modules,                  \* module entities: sequence of records, in spawn order
    structure_density,        \* Structure.density, in tenths of kg/m^2
    exposed_cells,            \* Pressurization.exposed_cells
    projectiles,              \* projectile entities: sequence of records, in spawn order
    collision_events,         \* Events<CollisionStarted>, unread by projectile_hit_system
    module_destroyed_events,  \* Events<ModuleDestroyedEvent>, unread
    depressurization_events,  \* Events<StructureDepressurizationEvent>, unread
    module_took_damage_events, \* Events<ModuleTookDamageEvent> read by the damage pop-up
    commands,                 \* deferred command buffers, in issue order
    ran,                      \* the systems that already ran in the current frame
    player_pos,               \* world position of every Player entity
    key_presses,              \* key events the player has still to cause
    controlled_by,            \* ControlledByPlayer marker of the structure (None or a player)
    is_controlling_structure, \* PlayerResource.is_controlling_structure
    input_events,             \* Events<InputAction> unread by control_command_center_system,
                              \* each with the number of frame ends it has seen
    interaction_events,       \* Events<ModuleInteractionEvent> sent in this frame
    fn_pc, fn_in, fn_out,     \* input/output of a pure function under check
    blob_assets,              \* Assets<AssetBlob>: the handles of AssetStore whose blob is loaded
    level,                    \* the contents of data/level.json
    world_grid,               \* the Grid resource of the level (None before it is built)
    structures,               \* the Structure entities of the file: Transform.translation and grid
    inside_structure,         \* PlayerResource.inside_structure
    structure_interaction_events, \* Events<StructureInteractionEvent> sent in this frame
    player_parent,            \* Parent of the Player entity
    inside_pc,                \* the system of the detection chain that runs next
    player_velocity,          \* LinearVelocity.x of the Player, in 1/FixedHz pixels per second
    structure_velocity,       \* LinearVelocity.x of the structure, in the same unit
    player_move_unread,       \* InputAction::Move events unread by player_move_system
    structure_move_unread,    \* InputAction::Move events unread by structure_move_system
    fixed_ran                 \* the FixedUpdate systems that already ran in the current frame

vars == <<phase, layout, material, ammo, grid, modules, structure_density, exposed_cells, projectiles,
          collision_events, module_destroyed_events, depressurization_events,
          module_took_damage_events,
          commands, ran, player_pos, key_presses, controlled_by,
          is_controlling_structure, input_events, interaction_events,
          fn_pc, fn_in, fn_out, blob_assets, level, world_grid,
          structures, inside_structure, structure_interaction_events, player_parent, inside_pc,
          player_velocity, structure_velocity, player_move_unread, structure_move_unread,
          fixed_ran>>

gameVars == <<phase, layout, material, ammo, grid, modules, structure_density, exposed_cells, projectiles,
              collision_events, module_destroyed_events, depressurization_events,
              module_took_damage_events, commands, ran>>
gameVarsButRan == <<phase, layout, material, ammo, grid, modules, structure_density,
                    exposed_cells, projectiles, collision_events, module_destroyed_events,
                    depressurization_events, module_took_damage_events, commands>>
controlVars == <<player_pos, key_presses, controlled_by, is_controlling_structure,
                 input_events, interaction_events>>
fnVars == <<fn_pc, fn_in, fn_out>>
assetVars == <<blob_assets, level, world_grid>>
insideVars == <<structures, inside_structure, structure_interaction_events, player_parent,
                inside_pc>>
moveVars == <<player_velocity, structure_velocity, player_move_unread, structure_move_unread,
              fixed_ran>>

None == "None"
StructureEntity == "structure"
Players == {"player1", "player2"}

(***************************************************************************)
(* Asset loading and the level (asset_loader.rs, grid.rs).                 *)
(***************************************************************************)
MaxLevelWidth == 2

\* AssetStore: the two handles requested by setup.
AssetStore == {"level_blob", "structures_blob"}

\* EnvironmentType::from(char)
EnvironmentTypeFrom(c) ==
    CASE c = "S" -> "InsideShip"
      [] c = "P" -> "PlanetSurface"
      [] c = "#" -> "OuterSpace"
      [] c = "W" -> "Wall"
      [] OTHER -> "OuterSpace"

\* Level files of one row: width, height and the rows of the world.
Levels ==
    {[width |-> Len(row), height |-> 1, world |-> <<row>>] :
        row \in UNION {[1 .. m -> {"S", "W", "#"}] : m \in 1 .. MaxLevelWidth}}

\* The Grid resource setup_grid_from_file inserts for a level: one GridCell
\* per character of the world, with the environment of the character.
LevelGrid(lv) ==
    [width |-> lv.width, height |-> lv.height,
     cells |-> [c \in {<<x - 1, y - 1>> : x \in DOMAIN lv.world[1], y \in DOMAIN lv.world}
                    |-> EnvironmentTypeFrom(lv.world[c[2] + 1][c[1] + 1])]]

\* No structure of a file is tracked and the player is inside none.
IdleInside ==
    /\ structures = << >>
    /\ inside_structure = None
    /\ structure_interaction_events = << >>
    /\ player_parent = None
    /\ inside_pc = "detect"

\* The player and the structure are at rest and no Move event is pending.
IdleMove ==
    /\ player_velocity = 0
    /\ structure_velocity = 0
    /\ player_move_unread = << >>
    /\ structure_move_unread = << >>
    /\ fixed_ran = {}

\* Both blobs are loaded and the grid of the level has been built: the state
\* in which GameState::BuildingStructures is entered.
AssetsReady ==
    /\ blob_assets = AssetStore
    /\ level = [width |-> 2, height |-> 1, world |-> << <<"#", "W">> >>]
    /\ world_grid = LevelGrid(level)

(***************************************************************************)
(* Bounds of the model.                                                    *)
(***************************************************************************)
MaxFloodCells == 9      \* largest grid (width * height) given to the flood fill check
MaxProjectiles == 2     \* projectiles spawned in one run
MaxCollisions == 2      \* CollisionStarted events the physics step sends in one frame
LifetimeFrames == 2     \* frames after which a projectile's 1 s timer has finished
MaxGridSide == 3        \* largest width and height of a grid given to the conversions
MaxLayoutCells == 4     \* most characters (width * height) of a layout given to the construction
MaxRows == 2            \* most rows of a layout of the structures file as it may be written
MaxRowLength == 2       \* most characters of one such row

(***************************************************************************)
(* Grid (world/grid.rs of the running version; its cell types are those of *)
(* the design: a cell is "Empty" or "Module").                             *)
(***************************************************************************)
CellTypes == {"Empty", "Module"}

GridCells(w, h) == (0 .. (w - 1)) \X (0 .. (h - 1))

\* Grid::new: one default cell for every x in 0..width, y in 0..height.
GridNew(w, h) ==
    [width |-> w, height |-> h, cells |-> [c \in GridCells(w, h) |-> "Empty"]]

\* Grid::get: the cell stored under (x, y), or None.
GridGet(g, c) == IF c \in DOMAIN g.cells THEN g.cells[c] ELSE None

\* Grid::insert(x, y, cell_type) as spawn_module calls it.
GridInsertTyped(g, c, t) ==
    [g EXCEPT !.cells = [k \in (DOMAIN g.cells) \cup {c} |->
                            IF k = c THEN t ELSE g.cells[k]]]

\* Grid::insert(x, y) as setup_structures_from_file calls it: it stores a
\* cell without occupant under the key; the cell type of a cell that is
\* already there is not its business.
GridInsert(g, c) ==
    [g EXCEPT !.cells = [k \in (DOMAIN g.cells) \cup {c} |->
                            IF k \in DOMAIN g.cells THEN g.cells[k] ELSE "Empty"]]

\* Grid::set_cell_type_to_empty: only a cell that exists changes.
set_cell_type_to_empty(g, c) ==
    IF c \in DOMAIN g.cells THEN [g EXCEPT !.cells[c] = "Empty"] ELSE g

\* Structure::is_within_grid_bounds
is_within_grid_bounds(g, c) ==
    c[1] >= 0 /\ c[1] < g.width /\ c[2] >= 0 /\ c[2] < g.height

(***************************************************************************)
(* ConnectivityAnalyzer: Structure::check_pressurization and its helpers.  *)
(***************************************************************************)
\* A neighbourhood that also steps diagonally.
get_adjacent_cells_diagonal(c) ==
    << <<c[1], c[2] - 1>>, <<c[1] + 1, c[2]>>, <<c[1], c[2] + 1>>, <<c[1] - 1, c[2]>>,
       <<c[1] - 1, c[2] - 1>>, <<c[1] + 1, c[2] - 1>>,
       <<c[1] - 1, c[2] + 1>>, <<c[1] + 1, c[2] + 1>> >>

\* Structure::get_adjacent_cells: the N/E/S/W neighbours, in that order.
get_adjacent_cells(c) ==
    << <<c[1], c[2] - 1>>, <<c[1] + 1, c[2]>>, <<c[1], c[2] + 1>>, <<c[1] - 1, c[2]>> >>

SeqToSet(s) == {s[i] : i \in DOMAIN s}

\* The cells of the grid in row-major order.
AllCellsSeq(g) ==
    [i \in 1 .. (g.width * g.height) |-> <<(i - 1) % g.width, (i - 1) \div g.width>>]

IsBoundaryCell(g, c) ==
    c[1] = 0 \/ c[2] = 0 \/ c[1] = g.width - 1 \/ c[2] = g.height - 1

Passable(g, c) == is_within_grid_bounds(g, c) /\ GridGet(g, c) # "Module"

\* Breadth-first traversal: a cell is marked visited when it is queued.
RECURSIVE flood_fill(_, _, _)
flood_fill(g, queue, visited) ==
    IF queue = << >> THEN visited
    ELSE LET c == Head(queue)
             fresh == SelectSeq(get_adjacent_cells(c),
                                LAMBDA n : Passable(g, n) /\ n \notin visited)
         IN flood_fill(g, Tail(queue) \o fresh, visited \cup SeqToSet(fresh))

\* Structure::check_pressurization: the queue is seeded with every boundary
\* cell that is not a Module; the visited set is the exposed set.
check_pressurization(g) ==
    LET seeds == SelectSeq(AllCellsSeq(g),
                           LAMBDA c : IsBoundaryCell(g, c) /\ Passable(g, c))
    IN flood_fill(g, seeds, SeqToSet(seeds))

\* Structure::find_neighbors_of_exposed_modules: the Module cells that have
\* an exposed cell as N/E/S/W neighbour.
find_neighbors_of_exposed_modules(g, exposed) ==
    {c \in DOMAIN g.cells :
        /\ g.cells[c] = "Module"
        /\ \E n \in SeqToSet(get_adjacent_cells(c)) : n \in exposed}

(***************************************************************************)
(* Materials (modules.rs, gameplay/structures_combat.rs).  Densities are   *)
(* kept in tenths of kg/m^2 so that the table stays integral.              *)
(***************************************************************************)
ModuleMaterialTypes == {"Steel", "Wood", "Aluminum"}
ProjectileMaterialTypes == {"Ballistic", "Explosive", "Energy"}

\* ModuleMaterialType::properties; thickness in millimetres.
ModuleProperties(m) ==
    CASE m = "Steel"    -> [yield_strength |-> 250000, thickness |-> 10,
                            density |-> 785, damage_threshold |-> 30000]
      [] m = "Wood"     -> [yield_strength |-> 40000, thickness |-> 20,
                            density |-> 120, damage_threshold |-> 5000]
      [] m = "Aluminum" -> [yield_strength |-> 150000, thickness |-> 5,
                            density |-> 135, damage_threshold |-> 20000]

\* ProjectileMaterialType::properties
ProjectileProperties(m) ==
    CASE m = "Ballistic" -> [yield_strength |-> 250000, thickness |-> 10,
                             density |-> 2555, damage_threshold |-> 30000]
      [] m = "Explosive" -> [yield_strength |-> 50, thickness |-> 20,
                             density |-> 100, damage_threshold |-> 50000]
      [] m = "Energy"    -> [yield_strength |-> 0, thickness |-> 0,
                             density |-> 0, damage_threshold |-> 100000]

\* UNIT_SCALE as the projectile code sees it (configs/config.rs).
UNIT_SCALE == 10
\* UNIT_SCALE as spawn_module sees it (crate::UNIT_SCALE of lib.rs).
MODULE_UNIT_SCALE == 1
\* Cell size handed to Grid::new by setup_structures_from_file.
CELL_SIZE == 50

\* ProjectileMaterialType::size times UNIT_SCALE (ProjectilePhysics::create):
\* the diameter in hundredths of a game unit.
ProjectileDiameter(m) ==
    CASE m = "Ballistic" -> 50 * UNIT_SCALE
      [] m = "Energy"    -> 50 * UNIT_SCALE
      [] m = "Explosive" -> 25 * UNIT_SCALE

\* ProjectilePhysics::create: mass = density * pi * radius^2, truncated to a
\* whole number (pi taken as 3.142).
ProjectileMass(m) ==
    LET d == ProjectileDiameter(m)
        area_milli == (3142 * d * d) \div 40000      \* pi * (d/2)^2, in thousandths
    IN (ProjectileProperties(m).density * area_milli) \div 10000

\* spawn_module: structural_points =
\*   ((yield_strength * volume * density) / damage_threshold) / UNIT_SCALE
\* with volume = (cell_size * 0.9)^2 * thickness, truncated to a whole number.
ModuleStructuralPoints(m) ==
    LET p == ModuleProperties(m)
        side10 == CELL_SIZE * 9                      \* cell_size * 0.9, in tenths
        volume_e5 == side10 * side10 * p.thickness   \* in 1e-5 units
        per_density == ((p.yield_strength \div 1000) * (volume_e5 \div 100))
                           \div (p.damage_threshold \div 1000)
    IN ((per_density * p.density) \div 10000) \div MODULE_UNIT_SCALE

(***************************************************************************)
(* Structure construction (structures.rs, modules.rs).                     *)
(***************************************************************************)
\* A layout is a sequence of rows, a row a sequence of characters.
LayoutRing == << <<".", "!", ".">>,
                 <<"W", ".", "W">>,
                 <<"W", "C", "W">> >>
LayoutBay  == << <<".", "!", "W", ".">>,
                 <<".", "W", ".", "W">>,
                 <<"C", ".", "W", ".">> >>
Layouts == {LayoutRing, LayoutBay}

\* The match arms with those of 'E' and 'W' exchanged.
ModuleTypeOfFileCharExchanged(ch) ==
    CASE ch = "E" -> "Wall"
      [] ch = "W" -> "Engine"
      [] ch = "C" -> "CommandCenter"

\* The match arms of setup_structures_from_file.
ModuleTypeOfFileChar(ch) ==
    CASE ch = "E" -> "Engine"
      [] ch = "W" -> "Wall"
      [] ch = "C" -> "CommandCenter"

\* The layout characters that stand for a module: those of the match, and
\* '!' for a Cannon.
ModuleChars == {"E", "W", "C", "!"}

ModuleTypeOfChar(ch) == IF ch = "!" THEN "Cannon" ELSE ModuleTypeOfFileChar(ch)

InteractableChar(ch) == ch = "C"

ModuleEntity(i) == <<"module", i>>
ProjectileEntity(j) == <<"projectile", j>>

\* The entity spawn_module creates: a ModuleBundleRigid (collider, material)
\* or, for an interactable module, a ModuleBundleInteractable (neither).
NewModule(module_type, grid_pos, interactable, material_type) ==
    [module_type       |-> module_type,
     inner_grid_pos    |-> grid_pos,
     entity_connected  |-> None,
     has_material      |-> ~interactable,
     structural_points |-> IF interactable THEN 0 ELSE ModuleStructuralPoints(material_type),
     material_type     |-> IF interactable THEN None ELSE material_type,
     parent            |-> StructureEntity,
     rigid_body        |-> None,
     external_force    |-> FALSE,
     alive             |-> TRUE]

\* spawn_module: the child entity, the Module cell, the density.
spawn_module(st, module_type, grid_pos, interactable, material_type) ==
    [modules |-> Append(st.modules, NewModule(module_type, grid_pos, interactable, material_type)),
     grid    |-> GridInsertTyped(st.grid, grid_pos, "Module"),
     density |-> st.density + ModuleProperties(material_type).density]

\* for (y, row) in structure_data.iter().enumerate()
\*     for (x, cell) in row.chars().enumerate()
RECURSIVE LayoutCells(_, _)
LayoutCells(rows, y) ==
    IF y > Len(rows) THEN << >>
    ELSE [x \in 1 .. Len(rows[y]) |-> <<x - 1, y - 1, rows[y][x]>>] \o LayoutCells(rows, y + 1)

\* The loop body: a module character spawns its module at (x, y) and is
\* followed by grid.insert(y, x); any other character is skipped.
RECURSIVE BuildStructure(_, _, _)
BuildStructure(cells, st, material_type) ==
    IF cells = << >> THEN st
    ELSE LET x == Head(cells)[1]
             y == Head(cells)[2]
             ch == Head(cells)[3]
         IN IF ch \in ModuleChars
            THEN LET spawned == spawn_module(st, ModuleTypeOfChar(ch), <<x, y>>,
                                             InteractableChar(ch), material_type)
                 IN BuildStructure(Tail(cells),
                                   [spawned EXCEPT !.grid = GridInsert(@, <<y, x>>)],
                                   material_type)
            ELSE BuildStructure(Tail(cells), st, material_type)

\* The Pressurization component of a new structure holds the exposed set of
\* the grid as built.
SeedExposed(g) == check_pressurization(g)

\* The structure a layout builds.
Built(rows, material_type) ==
    BuildStructure(LayoutCells(rows, 1),
                   [modules |-> << >>,
                    grid    |-> GridNew(Len(rows[1]), Len(rows)),
                    density |-> 0],
                   material_type)

setup_structures_from_file ==
    /\ phase = "BuildingStructures"
    /\ LET built == Built(layout, material)
       IN /\ modules' = built.modules
          /\ grid' = built.grid
          /\ structure_density' = built.density
          /\ exposed_cells' = SeedExposed(built.grid)
    /\ phase' = "InGame"
    /\ UNCHANGED <<layout, material, ammo, module_took_damage_events, projectiles, collision_events, module_destroyed_events,
                   depressurization_events, commands, ran, controlVars, fnVars, assetVars, insideVars, moveVars>>

(***************************************************************************)
(* Projectiles (gameplay/structures_combat.rs).                            *)
(***************************************************************************)
\* LinearVelocity(direction * 500.0) of structure_shoot_system.
PROJECTILE_SPEED == 500


\* ProjectilePhysics::create and the ProjectileBundle of structure_shoot_system.
NewProjectile(material_type, speed) ==
    [material_type |-> material_type,
     mass          |-> ProjectileMass(material_type),
     speed         |-> speed,
     timer         |-> LifetimeFrames,
     alive         |-> TRUE]

\* structure_shoot_system for one Shoot input: a structure that carries the
\* ControlledByPlayer marker fires the Cannon among its children.  It runs
\* in FixedUpdate, before the Update systems of the frame.
structure_shoot_system ==
    /\ phase = "InGame"
    /\ ran = {}
    /\ controlled_by # None
    /\ \E i \in DOMAIN modules :
          /\ modules[i].alive /\ modules[i].parent = StructureEntity
          /\ modules[i].module_type = "Cannon"
    /\ Len(projectiles) < MaxProjectiles
    /\ projectiles' = Append(projectiles, NewProjectile(ammo, PROJECTILE_SPEED))
    /\ UNCHANGED <<phase, layout, material, ammo, module_took_damage_events, grid, modules, structure_density, exposed_cells,
                   collision_events, module_destroyed_events, depressurization_events,
                   commands, ran, controlVars, fnVars, assetVars, insideVars, moveVars>>

(***************************************************************************)
(* Deferred commands.                                                      *)
(***************************************************************************)
Cmd(op, entity) == [op |-> op, entity |-> entity]

\* commands.entity(structure).insert(ControlledByPlayer { player_entity })
InsertControlledBy(player_entity) ==
    [op |-> "insert_controlled_by", entity |-> <<"structure", 1>>,
     player_entity |-> player_entity]

\* commands.entity(structure).remove::<ControlledByPlayer>()
RemoveControlledBy == [op |-> "remove_controlled_by", entity |-> <<"structure", 1>>]

\* A despawn that is queued only for an entity that is gone.
despawn_entity_if_gone(entity, exists) ==
    IF exists THEN << >> ELSE << Cmd("despawn", entity) >>

\* despawn_entity: the despawn is queued only for an entity that exists.
despawn_entity(entity, exists) ==
    IF exists THEN << Cmd("despawn", entity) >> ELSE << >>

\* A despawned entity has lost its components; of a module the model keeps
\* the structural points and the position it had, to tell which one it was.
DespawnedProjectile ==
    [material_type |-> None, mass |-> 0, speed |-> 0, timer |-> 0, alive |-> FALSE]

DespawnedModule(m) ==
    [m EXCEPT !.alive = FALSE, !.parent = None, !.rigid_body = None,
              !.external_force = FALSE, !.entity_connected = None]

\* One queued command takes effect on the world; a command for an entity
\* that is gone changes nothing.
ApplyCommand(w, c) ==
    LET i == c.entity[2] IN
    IF c.entity[1] = "structure"
    THEN CASE c.op = "insert_controlled_by" -> [w EXCEPT !.controlled_by = c.player_entity]
           [] c.op = "remove_controlled_by" -> [w EXCEPT !.controlled_by = None]
    ELSE IF c.entity[1] = "projectile"
    THEN IF c.op = "despawn" /\ w.projectiles[i].alive
         THEN [w EXCEPT !.projectiles[i] = DespawnedProjectile]
         ELSE w
    ELSE IF ~w.modules[i].alive THEN w
    ELSE CASE c.op = "despawn"       -> [w EXCEPT !.modules[i] = DespawnedModule(@)]
           [] c.op = "remove_parent" -> [w EXCEPT !.modules[i].parent = None]
           [] c.op = "insert_force"  -> [w EXCEPT !.modules[i].external_force = TRUE]
           [] c.op = "make_dynamic"  -> [w EXCEPT !.modules[i].rigid_body = "Dynamic"]

RECURSIVE ApplyCommands(_, _)
ApplyCommands(w, cmds) ==
    IF cmds = << >> THEN w ELSE ApplyCommands(ApplyCommand(w, Head(cmds)), Tail(cmds))

World == [modules |-> modules, projectiles |-> projectiles, controlled_by |-> controlled_by]

(***************************************************************************)
(* Damage resolution: projectile_hit_system.                               *)
(***************************************************************************)
RECURSIVE GCD(_, _)
GCD(a, b) == IF b = 0 THEN a ELSE GCD(b, a % b)

\* The ratio a / b in lowest terms.
Ratio(a, b) == LET g == GCD(a, b) IN <<a \div g, b \div g>>

\* Query<&mut Projectile>::get(e).is_ok() and Query<&mut Module>::get(e).is_ok()
IsProjectile(e) == e[1] = "projectile" /\ projectiles[e[2]].alive
IsModule(e) == e[1] = "module" /\ modules[e[2]].alive

find_matching_entity(entity1, entity2, Matches(_)) ==
    IF Matches(entity1) THEN entity1
    ELSE IF Matches(entity2) THEN entity2
    ELSE None

\* A search that looks at the second entity of the pair only.
find_module_entity_second(entity1, entity2) ==
    IF IsModule(entity2) THEN entity2 ELSE None

\* find_matching_entity(*entity1, *entity2, &mut module_query)
find_module_entity(entity1, entity2) == find_matching_entity(entity1, entity2, IsModule)

\* find_matching_entity(*entity1, *entity2, &mut projectile_query)
find_projectile_entity(entity1, entity2) == find_matching_entity(entity1, entity2, IsProjectile)

\* The kinetic energy without the factor 0.5.
KineticEnergyNoHalf(mass, speed) == mass * speed * speed

\* 0.5 * mass * velocity^2
KineticEnergy(mass, speed) == (mass * speed * speed) \div 2

\* damage = (kinetic_energy * density_factor * hardness_factor) / material_strength,
\* truncated to whole structural points.
Damage(mass, speed, projectile_material, module_material) ==
    LET material_properties == ModuleProperties(module_material)
        projectile_properties == ProjectileProperties(projectile_material)
        material_strength == material_properties.yield_strength
        density_factor == Ratio(projectile_properties.density, material_properties.density)
        hardness_factor == Ratio(projectile_properties.yield_strength,
                                 material_properties.yield_strength)
    IN ((KineticEnergy(mass, speed) \div material_strength)
            * density_factor[1] * hardness_factor[1])
       \div (density_factor[2] * hardness_factor[2])

\* The update with the sign of the damage reversed.
PointsAfterHitAdded(structural_points, damage) == structural_points + damage

\* module_material.structural_points -= damage
PointsAfterHit(structural_points, damage) == structural_points - damage

\* The body of the loop for one CollisionStarted(entity1, entity2).
HitOne(ev, st) ==
    LET projectile_entity == find_projectile_entity(ev[1], ev[2])
        module_entity == find_module_entity(ev[1], ev[2])
    IN IF projectile_entity = None \/ module_entity = None THEN st
       ELSE LET i == module_entity[2]
                module == st.modules[i]
                projectile == projectiles[projectile_entity[2]]
            IN IF ~module.has_material THEN st
               ELSE LET damage == Damage(projectile.mass, projectile.speed,
                                         projectile.material_type, module.material_type)
                        after == PointsAfterHit(module.structural_points, damage)
                        is_destroyed == after <= 0
                    IN [modules   |-> [st.modules EXCEPT ![i].structural_points = after],
                        destroyed |-> IF is_destroyed
                                      THEN Append(st.destroyed,
                                                  [destroyed_entity |-> module_entity,
                                                   inner_grid_pos   |-> module.inner_grid_pos])
                                      ELSE st.destroyed,
                        took_damage |-> st.took_damage,
                        cmds      |-> st.cmds \o despawn_entity(projectile_entity, TRUE)]

RECURSIVE HitLoop(_, _)
HitLoop(events, st) ==
    IF events = << >> THEN st ELSE HitLoop(Tail(events), HitOne(Head(events), st))

\* Which of the two colliding entities a CollisionStarted names first is the
\* physics engine's choice; it is drawn when the event is read.
projectile_hit_system ==
    /\ phase = "InGame"
    /\ "control" \in ran
    /\ "hit" \notin ran
    /\ \E swapped \in [DOMAIN collision_events -> BOOLEAN] :
          LET events == [k \in DOMAIN collision_events |->
                            IF swapped[k]
                            THEN <<collision_events[k][2], collision_events[k][1]>>
                            ELSE collision_events[k]]
              st == HitLoop(events, [modules |-> modules, destroyed |-> << >>,
                                     took_damage |-> << >>, cmds |-> << >>])
          IN /\ modules' = st.modules
             /\ module_destroyed_events' = module_destroyed_events \o st.destroyed
             /\ module_took_damage_events' = module_took_damage_events \o st.took_damage
             /\ commands' = commands \o st.cmds
    /\ collision_events' = << >>
    /\ ran' = ran \cup {"hit"}
    /\ UNCHANGED <<phase, layout, material, ammo, grid, structure_density, exposed_cells, projectiles,
                   depressurization_events, controlVars, fnVars, assetVars, insideVars, moveVars>>

\* The sync point the schedule puts between the chained projectile_hit_system
\* and projectile_lifetime_system: every buffer filled so far is applied.
apply_deferred ==
    /\ phase = "InGame"
    /\ "hit" \in ran
    /\ "sync" \notin ran
    /\ LET w == ApplyCommands(World, commands)
       IN /\ modules' = w.modules
          /\ projectiles' = w.projectiles
          /\ controlled_by' = w.controlled_by
    /\ commands' = << >>
    /\ ran' = ran \cup {"sync"}
    /\ UNCHANGED <<phase, layout, material, ammo, module_took_damage_events, grid, structure_density, exposed_cells,
                   collision_events, module_destroyed_events, depressurization_events,
                   player_pos, key_presses, is_controlling_structure, input_events,
                   interaction_events, fnVars, assetVars, insideVars, moveVars>>

\* A timer that never tells it has finished.
JustFinishedNever(projectile) == FALSE

\* timer.tick(time.delta()).just_finished(): the tick that brings the timer
\* of a projectile to its end.
JustFinished(projectile) == projectile.alive /\ projectile.timer = 1

\* projectile_lifetime_system: every projectile's timer ticks; the one that
\* just finished is despawned.
projectile_lifetime_system ==
    /\ phase = "InGame"
    /\ "sync" \in ran
    /\ "lifetime" \notin ran
    /\ projectiles' = [j \in DOMAIN projectiles |->
                          IF projectiles[j].alive /\ projectiles[j].timer > 0
                          THEN [projectiles[j] EXCEPT !.timer = @ - 1]
                          ELSE projectiles[j]]
    /\ LET finished == SelectSeq([j \in DOMAIN projectiles |-> j],
                                 LAMBDA j : JustFinished(projectiles[j]))
       IN commands' = commands \o [k \in DOMAIN finished |-> Cmd("despawn", ProjectileEntity(finished[k]))]
    /\ ran' = ran \cup {"lifetime"}
    /\ UNCHANGED <<phase, layout, material, ammo, module_took_damage_events, grid, modules, structure_density, exposed_cells,
                   collision_events, module_destroyed_events, depressurization_events,
                   controlVars, fnVars, assetVars, insideVars, moveVars>>

(***************************************************************************)
(* Destruction and breach cascade.                                         *)
(***************************************************************************)
\* Query<&Parent>::get(e).is_ok(): the entity is alive and has a parent.
HasParent(e) == modules[e[2]].alive /\ modules[e[2]].parent # None

\* A cell update that flips the type instead of clearing it.
ToggleDestroyedCell(g, pos) ==
    IF pos \in DOMAIN g.cells
    THEN [g EXCEPT !.cells[pos] = IF @ = "Module" THEN "Empty" ELSE "Module"]
    ELSE g

\* structure_attacked.grid.set_cell_type_to_empty(pos) of the destroyed handler.
ClearDestroyedCell(g, pos) == set_cell_type_to_empty(g, pos)

\* A test that takes any stored cell outside the exposed set for a room.
AnyExposedAnyCell(g, exposed, pos) ==
    \E k \in DOMAIN get_adjacent_cells(pos) :
        LET adjacent_cell == get_adjacent_cells(pos)[k]
        IN adjacent_cell \notin exposed /\ GridGet(g, adjacent_cell) # None

\* An adjacent cell that is outside the exposed set and holds an Empty cell.
AnyExposed(g, exposed, pos) ==
    \E k \in DOMAIN get_adjacent_cells(pos) :
        LET adjacent_cell == get_adjacent_cells(pos)[k]
        IN adjacent_cell \notin exposed /\ GridGet(g, adjacent_cell) = "Empty"

\* A handler that leaves the exposed set as it was.
KeepExposed(g, old) == old

\* pressurization.exposed_cells = structure.check_pressurization()
RecomputeExposed(g, old) == check_pressurization(g)

\* The body of the loop of handle_module_destroyed_system for one event.
DestroyedOne(ev, st) ==
    LET module_destroyed == ev.destroyed_entity IN
    IF ~HasParent(module_destroyed) THEN st
    ELSE LET module_inner_grid_pos == ev.inner_grid_pos
             g == ClearDestroyedCell(st.grid, module_inner_grid_pos)
             any_exposed == AnyExposed(g, st.exposed, module_inner_grid_pos)
         IN [grid    |-> g,
             exposed |-> RecomputeExposed(g, st.exposed),
             depress |-> IF any_exposed THEN Append(st.depress, StructureEntity)
                                        ELSE st.depress,
             cmds    |-> (st.cmds \o << Cmd("remove_parent", module_destroyed) >>)
                             \o despawn_entity(module_destroyed, TRUE)]

RECURSIVE DestroyedLoop(_, _)
DestroyedLoop(events, st) ==
    IF events = << >> THEN st
    ELSE DestroyedLoop(Tail(events), DestroyedOne(Head(events), st))

handle_module_destroyed_system ==
    /\ phase = "InGame"
    /\ "control" \in ran
    /\ "destroyed" \notin ran
    /\ LET st == DestroyedLoop(module_destroyed_events,
                               [grid |-> grid, exposed |-> exposed_cells,
                                depress |-> << >>, cmds |-> << >>])
       IN /\ grid' = st.grid
          /\ exposed_cells' = st.exposed
          /\ depressurization_events' = depressurization_events \o st.depress
          /\ commands' = commands \o st.cmds
    /\ module_destroyed_events' = << >>
    /\ ran' = ran \cup {"destroyed"}
    /\ UNCHANGED <<phase, layout, material, ammo, module_took_damage_events, modules, structure_density, projectiles,
                   collision_events, controlVars, fnVars, assetVars, insideVars, moveVars>>

\* The Children of the structure, in spawn order.
Children == SelectSeq([i \in DOMAIN modules |-> i],
                      LAMBDA i : modules[i].alive /\ modules[i].parent = StructureEntity)

\* The modules handle_depressurization_system blows off: the argument is the
\* exposed set as it is when the event is handled.
NeighboringModules(g, exposed) == find_neighbors_of_exposed_modules(g, exposed)

\* Transform::from_translation(Vec3::new(0.0, 200.0, 1.0)) of the structure.
STRUCTURE_POS == <<0, 200>>

\* Z of the structure's Transform::from_translation(Vec3::new(0.0, 200.0, 1.0)).
STRUCTURE_Z == 1

\* The structure's Transform.translation.
StructureTranslation == <<STRUCTURE_POS[1], STRUCTURE_POS[2], STRUCTURE_Z>>

\* The Transform.translation a module is spawned with, relative to its
\* parent: Vec3::new(x_translation, y_translation, z), z = -1 for the
\* command center and 1 for the other modules.
ModuleTranslation(g, module) ==
    LET x == module.inner_grid_pos[1]
        y == module.inner_grid_pos[2]
    IN <<((2 * x - g.width) * CELL_SIZE) \div 2 + CELL_SIZE \div 2,
         ((g.height - 2 * y) * CELL_SIZE) \div 2 - CELL_SIZE \div 2,
         IF module.module_type = "CommandCenter" THEN -1 ELSE 1>>

\* module_transform.translation - structure_transform.translation
DirectionOfForce(module_translation, structure_translation) ==
    <<module_translation[1] - structure_translation[1],
      module_translation[2] - structure_translation[2],
      module_translation[3] - structure_translation[3]>>

\* ExternalForce::new(direction * force_magnitude): normalize() of the zero
\* vector is NaN; otherwise the force is a positive multiple of the x and y
\* of the difference, which is what the model keeps of it.
BreachForce(module_translation, structure_translation) ==
    LET d == DirectionOfForce(module_translation, structure_translation)
    IN [nan |-> d = <<0, 0, 0>>, along |-> <<d[1], d[2]>>]

\* commands.entity(module_entity).insert(ExternalForce::new(force))
InsertForce(module_entity, force) ==
    [op |-> "insert_force", entity |-> module_entity, force |-> force]

\* The commands and the grid update for one child in neighboring_modules.
RECURSIVE DetachLoop(_, _, _)
DetachLoop(children, neighboring_modules, st) ==
    IF children = << >> THEN st
    ELSE LET i == Head(children)
             module_entity == ModuleEntity(i)
             pos == modules[i].inner_grid_pos
         IN IF pos \in neighboring_modules
            THEN DetachLoop(Tail(children), neighboring_modules,
                            [grid |-> set_cell_type_to_empty(st.grid, pos),
                             cmds |-> st.cmds \o << InsertForce(module_entity,
                                                        BreachForce(ModuleTranslation(st.grid, modules[i]),
                                                                    StructureTranslation)),
                                                    Cmd("remove_parent", module_entity),
                                                    Cmd("make_dynamic", module_entity) >>])
            ELSE DetachLoop(Tail(children), neighboring_modules, st)

\* The body of the loop of handle_depressurization_system for one event.
DepressurizeOne(ev, st) ==
    LET neighboring_modules == NeighboringModules(st.grid, st.exposed)
        d == DetachLoop(Children, neighboring_modules, [grid |-> st.grid, cmds |-> st.cmds])
    IN [grid    |-> d.grid,
        exposed |-> RecomputeExposed(d.grid, st.exposed),
        cmds    |-> d.cmds]

RECURSIVE DepressurizeLoop(_, _)
DepressurizeLoop(events, st) ==
    IF events = << >> THEN st
    ELSE DepressurizeLoop(Tail(events), DepressurizeOne(Head(events), st))

handle_depressurization_system ==
    /\ phase = "InGame"
    /\ "control" \in ran
    /\ "depress" \notin ran
    /\ LET st == DepressurizeLoop(depressurization_events,
                                  [grid |-> grid, exposed |-> exposed_cells, cmds |-> << >>])
       IN /\ grid' = st.grid
          /\ exposed_cells' = st.exposed
          /\ commands' = commands \o st.cmds
    /\ depressurization_events' = << >>
    /\ ran' = ran \cup {"depress"}
    /\ UNCHANGED <<phase, layout, material, ammo, module_took_damage_events, modules, structure_density, projectiles,
                   collision_events, module_destroyed_events, controlVars, fnVars, assetVars, insideVars, moveVars>>

(***************************************************************************)
(* Piloting (structures.rs, core/inputs.rs).                               *)
(***************************************************************************)
MaxKeyPresses == 2      \* key events of one run

\* World positions a player can be at.
Spots == {<<-25, 175>>, <<-100, 175>>, <<-25, 225>>, <<0, 150>>}

\* The Transform of the structure entity: the translation of the spawn and no
\* rotation, in quarter turns about z.
StructureTransform == [translation |-> STRUCTURE_POS, rotation |-> 0]

\* Structure::get_relative_position
get_relative_position(some_world_pos, structure_transform) ==
    <<some_world_pos[1] - structure_transform.translation[1],
      some_world_pos[2] - structure_transform.translation[2]>>

\* Structure::adjust_for_grid_origin
adjust_for_grid_origin(rel) == <<rel[1] + (CELL_SIZE \div 2), rel[2] - (CELL_SIZE \div 2)>>

\* Grid::world_to_grid; \div rounds down as floor() does.
GridWorldToGrid(g, pos) ==
    LET half_width == (g.width * CELL_SIZE) \div 2
        half_height == (g.height * CELL_SIZE) \div 2
    IN <<(pos[1] + half_width) \div CELL_SIZE, (half_height - pos[2]) \div CELL_SIZE>>

\* Grid::grid_to_world
GridToWorld(g, grid_pos) ==
    LET half_width == (g.width * CELL_SIZE) \div 2
        half_height == (g.height * CELL_SIZE) \div 2
    IN <<grid_pos[1] * CELL_SIZE - half_width + (CELL_SIZE \div 2),
         half_height - grid_pos[2] * CELL_SIZE - (CELL_SIZE \div 2)>>

\* Structure::world_to_grid
world_to_grid(g, global_world_pos, structure_transform) ==
    GridWorldToGrid(g, adjust_for_grid_origin(
                           get_relative_position(global_world_pos, structure_transform)))

\* Structure::grid_to_world_position with the half cell its comment speaks of.
grid_to_world_position_centred(g, grid_pos, structure_transform) ==
    LET half_width == (g.width * CELL_SIZE) \div 2
        half_height == (g.height * CELL_SIZE) \div 2
    IN <<grid_pos[1] * CELL_SIZE - half_width + (CELL_SIZE \div 2)
             + structure_transform.translation[1],
         half_height - grid_pos[2] * CELL_SIZE - (CELL_SIZE \div 2)
             + structure_transform.translation[2]>>

\* Structure::grid_to_world_position
grid_to_world_position(g, grid_pos, structure_transform) ==
    LET half_width == (g.width * CELL_SIZE) \div 2
        half_height == (g.height * CELL_SIZE) \div 2
    IN <<grid_pos[1] * CELL_SIZE - half_width + structure_transform.translation[1],
         half_height - grid_pos[2] * CELL_SIZE + structure_transform.translation[2]>>

\* Quat::mul_vec3 of a rotation about z by a number of quarter turns.
Rotate(v, quarter_turns) ==
    CASE quarter_turns % 4 = 0 -> v
      [] quarter_turns % 4 = 1 -> <<0 - v[2], v[1]>>
      [] quarter_turns % 4 = 2 -> <<0 - v[1], 0 - v[2]>>
      [] quarter_turns % 4 = 3 -> <<v[2], 0 - v[1]>>

\* keyboard_input: a released space key sends SpacePressed, a held movement
\* key sends Move.
Keys == {"SpacePressed", "Move"}

\* The systems of FixedUpdate that read InputAction::Move.
FixedSystems == {"player_move", "structure_move"}

keyboard_input ==
    /\ phase = "InGame"
    /\ ran = {}
    /\ fixed_ran \in {{}, FixedSystems}
    /\ \/ /\ key_presses > 0
          /\ \E key \in Keys :
                LET event == [action |-> key, age |-> 0]
                IN /\ input_events' = Append(input_events, event)
                   /\ player_move_unread' =
                          IF key = "Move" THEN Append(player_move_unread, event)
                                          ELSE player_move_unread
                   /\ structure_move_unread' =
                          IF key = "Move" THEN Append(structure_move_unread, event)
                                          ELSE structure_move_unread
          /\ key_presses' = key_presses - 1
       \/ UNCHANGED <<input_events, key_presses, player_move_unread, structure_move_unread>>
    /\ ran' = {"input"}
    /\ UNCHANGED <<gameVarsButRan, player_pos, controlled_by, is_controlling_structure,
                   interaction_events, fnVars, assetVars, insideVars,
                   player_velocity, structure_velocity, fixed_ran>>

\* A release that any agent may make.
MayReleaseAny(module, player_entity) == module.entity_connected # None

\* module.entity_connected.is_none()
MayTake(module) == module.entity_connected = None

\* module.entity_connected == Some(player_entity)
MayRelease(module, player_entity) == module.entity_connected = player_entity

\* A match that looks at the module type only.
IsCommandCenterAnywhere(module, cell) == module.module_type = "CommandCenter"

\* matches!(module.module_type, CommandCenter) && inner_grid_pos == player cell
IsCommandCenterAt(module, cell) ==
    module.module_type = "CommandCenter" /\ module.inner_grid_pos = cell

\* The body of `for event in event_reader.read()` for the player in the cell
\* of command center m.
ControlOne(ev, player_entity, m, st) ==
    IF ev.action # "SpacePressed" THEN st
    ELSE IF MayTake(st.modules[m])
    THEN [st EXCEPT !.modules[m].entity_connected = player_entity,
                    !.cmds = Append(@, InsertControlledBy(player_entity)),
                    !.flag = TRUE,
                    !.sent = Append(@, [kind |-> "TakeControl",
                                        player_entity |-> player_entity])]
    ELSE IF MayRelease(st.modules[m], player_entity)
    THEN [st EXCEPT !.modules[m].entity_connected = None,
                    !.cmds = Append(@, RemoveControlledBy),
                    !.flag = FALSE,
                    !.sent = Append(@, [kind |-> "ReleaseControl",
                                        player_entity |-> player_entity])]
    ELSE st

RECURSIVE ControlEvents(_, _, _, _)
ControlEvents(events, player_entity, m, st) ==
    IF events = << >> THEN st
    ELSE ControlEvents(Tail(events), player_entity, m,
                       ControlOne(Head(events), player_entity, m, st))

\* for child in children: the command center in the player's cell reads the
\* events; the reader is empty afterwards.
RECURSIVE ControlChildren(_, _, _, _)
ControlChildren(children, player_entity, cell, st) ==
    IF children = << >> THEN st
    ELSE LET m == Head(children)
         IN IF IsCommandCenterAt(modules[m], cell)
            THEN ControlChildren(Tail(children), player_entity, cell,
                                 [ControlEvents(st.events, player_entity, m, st)
                                      EXCEPT !.events = << >>])
            ELSE ControlChildren(Tail(children), player_entity, cell, st)

\* for (player_entity, player_transform, _) in &mut player_query
RECURSIVE ControlPlayers(_, _)
ControlPlayers(order, st) ==
    IF order = << >> THEN st
    ELSE LET player_entity == Head(order)
             cell == world_to_grid(grid, player_pos[player_entity], StructureTransform)
         IN IF is_within_grid_bounds(grid, cell)
            THEN ControlPlayers(Tail(order),
                                ControlChildren(Children, player_entity, cell, st))
            ELSE ControlPlayers(Tail(order), st)

\* The orders in which the query can yield the Player entities.
PlayerOrders ==
    LET P == DOMAIN player_pos
    IN {o \in [1 .. Cardinality(P) -> P] : \A a, b \in DOMAIN o : a # b => o[a] # o[b]}

control_command_center_system ==
    /\ phase = "InGame"
    /\ ran = {"input"}
    /\ \E order \in PlayerOrders :
          LET st == ControlPlayers(order, [modules |-> modules, cmds |-> << >>,
                                           flag |-> is_controlling_structure,
                                           sent |-> << >>, events |-> input_events])
          IN /\ modules' = st.modules
             /\ commands' = commands \o st.cmds
             /\ is_controlling_structure' = st.flag
             /\ interaction_events' = interaction_events \o st.sent
             /\ input_events' = st.events
    /\ ran' = ran \cup {"control"}
    /\ UNCHANGED <<phase, layout, material, ammo, module_took_damage_events, grid, structure_density, exposed_cells,
                   projectiles, collision_events, module_destroyed_events,
                   depressurization_events, player_pos, key_presses, controlled_by, fnVars, assetVars, insideVars, moveVars>>

\* Between two frames the physics step carries a player to another spot.
player_move ==
    /\ phase = "InGame"
    /\ ran = {}
    /\ \E p \in DOMAIN player_pos : \E spot \in Spots \ {player_pos[p]} :
          player_pos' = [player_pos EXCEPT ![p] = spot]
    /\ UNCHANGED <<gameVars, key_presses, controlled_by, is_controlling_structure,
                   input_events, interaction_events, fnVars, assetVars, insideVars, moveVars>>

(***************************************************************************)
(* End of the frame: the last buffers are applied and the physics step     *)
(* reports the collisions that started.                                    *)
(***************************************************************************)
Systems == {"input", "control", "hit", "sync", "lifetime", "destroyed", "depress"}

\* Events::update: an event is dropped at the second frame end it sees.
AgedEvents(events) ==
    LET kept == SelectSeq(events, LAMBDA e : e.age = 0)
    IN [k \in DOMAIN kept |-> [kept[k] EXCEPT !.age = 1]]

\* The StructureSensor child of the structure: a Sensor collider that is
\* neither a Projectile nor a Module.
SensorEntity == <<"sensor", 1>>

\* The pairs the physics step can report.  Colliders are carried by the live
\* projectiles, by the live modules spawned as ModuleBundleRigid and by the
\* sensor: a projectile meets a module, the sensor or another projectile,
\* and a module that floats free meets another module.
CollisionPairs(w) ==
    LET ps == {ProjectileEntity(j) : j \in {k \in DOMAIN w.projectiles : w.projectiles[k].alive}}
        ms == {ModuleEntity(i) : i \in {k \in DOMAIN w.modules :
                                          w.modules[k].alive /\ w.modules[k].has_material}}
        free == {m \in ms : w.modules[m[2]].parent = None}
    IN (ps \X ms)
         \cup (ps \X {SensorEntity})
         \cup {pair \in ps \X ps : pair[1][2] < pair[2][2]}
         \cup {pair \in ms \X ms : /\ pair[1][2] < pair[2][2]
                                   /\ (pair[1] \in free \/ pair[2] \in free)}

\* The sequences of at most MaxCollisions events about distinct pairs.
CollisionSeqs(w) ==
    UNION {{s \in [1 .. n -> CollisionPairs(w)] : \A a, b \in 1 .. n : a # b => s[a] # s[b]}
           : n \in 0 .. MaxCollisions}

end_frame ==
    /\ phase = "InGame"
    /\ ran = Systems
    /\ LET w == ApplyCommands(World, commands)
       IN /\ modules' = w.modules
          /\ projectiles' = w.projectiles
          /\ controlled_by' = w.controlled_by
          /\ \E evs \in CollisionSeqs(w) : collision_events' = collision_events \o evs
    /\ input_events' = AgedEvents(input_events)
    /\ player_move_unread' = AgedEvents(player_move_unread)
    /\ structure_move_unread' = AgedEvents(structure_move_unread)
    /\ interaction_events' = << >>
    /\ commands' = << >>
    /\ ran' = {}
    /\ fixed_ran' = {}
    /\ UNCHANGED <<phase, layout, material, ammo, module_took_damage_events, grid, structure_density, exposed_cells,
                   module_destroyed_events, depressurization_events, player_pos,
                   key_presses, is_controlling_structure, fnVars, assetVars, insideVars,
                   player_velocity, structure_velocity>>

(***************************************************************************)
(* Spec: a structure is built and then shot at.                            *)
(***************************************************************************)
\* The runs: a layout, the material of its modules, the material of the
\* projectiles.  Every projectile material meets every module material.
Configs ==
    ({LayoutBay} \X {"Wood", "Steel"} \X {"Ballistic"})
        \cup ({LayoutRing} \X {"Aluminum"} \X {"Ballistic"})
        \cup ({LayoutBay} \X ModuleMaterialTypes \X {"Explosive", "Energy"})

\* The spots from which a player is in the cell of a command center of the
\* structure.
PilotSpots(built) ==
    {spot \in Spots :
        \E i \in DOMAIN built.modules :
            IsCommandCenterAt(built.modules[i], world_to_grid(built.grid, spot, StructureTransform))}

Init ==
    /\ AssetsReady /\ IdleInside /\ IdleMove
    /\ phase = "BuildingStructures"
    /\ \E c \in Configs : layout = c[1] /\ material = c[2] /\ ammo = c[3]
    /\ grid = GridNew(0, 0)
    /\ modules = << >>
    /\ structure_density = 0
    /\ exposed_cells = {}
    /\ projectiles = << >>
    /\ collision_events = << >>
    /\ module_destroyed_events = << >>
    /\ depressurization_events = << >>
    /\ module_took_damage_events = << >>
    /\ commands = << >>
    /\ ran = {}
    /\ \E spot \in PilotSpots(Built(layout, material)) :
          player_pos = [p \in {"player1"} |-> spot]
    /\ key_presses = 1
    /\ controlled_by = None
    /\ is_controlling_structure = FALSE
    /\ input_events = << >>
    /\ interaction_events = << >>
    /\ fn_pc = "idle"
    /\ fn_in = None
    /\ fn_out = None

Next ==
    \/ setup_structures_from_file
    \/ structure_shoot_system
    \/ keyboard_input
    \/ control_command_center_system
    \/ projectile_hit_system
    \/ apply_deferred
    \/ projectile_lifetime_system
    \/ handle_module_destroyed_system
    \/ handle_depressurization_system
    \/ end_frame

Spec == Init /\ [][Next]_vars

(***************************************************************************)
(* SpecDamage: the pilot may leave the command center again, so that       *)
(* projectiles hit the structure piloted and unpiloted; every projectile   *)
(* material meets every module material on a structure of a cannon and a   *)
(* command center.                                                         *)
(***************************************************************************)
LayoutPod == << <<"!", "C">> >>

DamageConfigs == {LayoutPod} \X ModuleMaterialTypes \X ProjectileMaterialTypes

InitDamage ==
    /\ AssetsReady /\ IdleInside /\ IdleMove
    /\ phase = "BuildingStructures"
    /\ \E c \in DamageConfigs : layout = c[1] /\ material = c[2] /\ ammo = c[3]
    /\ grid = GridNew(0, 0)
    /\ modules = << >>
    /\ structure_density = 0
    /\ exposed_cells = {}
    /\ projectiles = << >>
    /\ collision_events = << >>
    /\ module_destroyed_events = << >>
    /\ depressurization_events = << >>
    /\ module_took_damage_events = << >>
    /\ commands = << >>
    /\ ran = {}
    /\ \E spot \in PilotSpots(Built(layout, material)) :
          player_pos = [p \in {"player1"} |-> spot]
    /\ key_presses = MaxKeyPresses
    /\ controlled_by = None
    /\ is_controlling_structure = FALSE
    /\ input_events = << >>
    /\ interaction_events = << >>
    /\ fn_pc = "idle"
    /\ fn_in = None
    /\ fn_out = None

SpecDamage == InitDamage /\ [][Next]_vars

\* The runs with Steel modules and Ballistic projectiles and one key event,
\* under the main loop of the application, which never stops running frames:
\* a step that can be taken is taken.
InitLife ==
    /\ AssetsReady /\ IdleInside /\ IdleMove
    /\ phase = "BuildingStructures"
    /\ layout = LayoutPod /\ material = "Steel" /\ ammo = "Ballistic"
    /\ grid = GridNew(0, 0)
    /\ modules = << >>
    /\ structure_density = 0
    /\ exposed_cells = {}
    /\ projectiles = << >>
    /\ collision_events = << >>
    /\ module_destroyed_events = << >>
    /\ depressurization_events = << >>
    /\ module_took_damage_events = << >>
    /\ commands = << >>
    /\ ran = {}
    /\ \E spot \in PilotSpots(Built(layout, material)) :
          player_pos = [p \in {"player1"} |-> spot]
    /\ key_presses = 1
    /\ controlled_by = None
    /\ is_controlling_structure = FALSE
    /\ input_events = << >>
    /\ interaction_events = << >>
    /\ fn_pc = "idle"
    /\ fn_in = None
    /\ fn_out = None

LiveLife == InitLife /\ [][Next]_vars /\ WF_vars(Next)

(***************************************************************************)
(* SpecControl: two players around the command center of a structure that  *)
(* nobody shoots at.  control_command_center_system serves every Player    *)
(* entity of the world; the run has two of them.                           *)
(***************************************************************************)
InitControl ==
    /\ AssetsReady /\ IdleInside /\ IdleMove
    /\ phase = "BuildingStructures"
    /\ layout = LayoutRing
    /\ material = "Wood"
    /\ ammo = "Ballistic"
    /\ grid = GridNew(0, 0)
    /\ modules = << >>
    /\ structure_density = 0
    /\ exposed_cells = {}
    /\ projectiles = << >>
    /\ collision_events = << >>
    /\ module_destroyed_events = << >>
    /\ depressurization_events = << >>
    /\ module_took_damage_events = << >>
    /\ commands = << >>
    /\ ran = {}
    /\ player_pos \in [Players -> Spots]
    /\ key_presses = MaxKeyPresses
    /\ controlled_by = None
    /\ is_controlling_structure = FALSE
    /\ input_events = << >>
    /\ interaction_events = << >>
    /\ fn_pc = "idle"
    /\ fn_in = None
    /\ fn_out = None

NextControl ==
    \/ setup_structures_from_file
    \/ player_move
    \/ keyboard_input
    \/ control_command_center_system
    \/ projectile_hit_system
    \/ apply_deferred
    \/ projectile_lifetime_system
    \/ handle_module_destroyed_system
    \/ handle_depressurization_system
    \/ end_frame

SpecControl == InitControl /\ [][NextControl]_vars

(***************************************************************************)
(* State of the parts a specification does not exercise.                   *)
(***************************************************************************)
IdleGame ==
    /\ phase = "Idle"
    /\ layout = << >>
    /\ material = None
    /\ ammo = None
    /\ grid = GridNew(0, 0)
    /\ modules = << >>
    /\ structure_density = 0
    /\ exposed_cells = {}
    /\ projectiles = << >>
    /\ collision_events = << >>
    /\ module_destroyed_events = << >>
    /\ depressurization_events = << >>
    /\ module_took_damage_events = << >>
    /\ commands = << >>
    /\ ran = {}

IdleControl ==
    /\ player_pos = << >>
    /\ key_presses = 0
    /\ controlled_by = None
    /\ is_controlling_structure = FALSE
    /\ input_events = << >>
    /\ interaction_events = << >>

IdleFn ==
    /\ fn_pc = "idle"
    /\ fn_in = None
    /\ fn_out = None

(***************************************************************************)
(* SpecFlood: check_pressurization applied to every small grid.            *)
(***************************************************************************)
FloodGrids ==
    UNION {
        {[width |-> w, height |-> h, cells |-> f] : f \in [GridCells(w, h) -> CellTypes]}
        : <<w, h>> \in {d \in (1 .. MaxFloodCells) \X (1 .. MaxFloodCells) :
                            d[1] * d[2] <= MaxFloodCells}}

InitFlood ==
    /\ AssetsReady /\ IdleInside /\ IdleMove
    /\ IdleGame
    /\ IdleControl
    /\ fn_pc = "flood_in"
    /\ fn_in \in FloodGrids
    /\ fn_out = None

RunFlood ==
    /\ fn_pc = "flood_in"
    /\ fn_out' = check_pressurization(fn_in)
    /\ fn_pc' = "flood_out"
    /\ UNCHANGED <<fn_in, gameVars, controlVars, assetVars, insideVars, moveVars>>

NextFlood == RunFlood

SpecFlood == InitFlood /\ [][NextFlood]_vars

(***************************************************************************)
(* SpecBuild: the construction of a structure from every small layout.     *)
(***************************************************************************)
\* The characters of a layout: those of the modules, and two that stand for
\* no module.
LayoutChars == ModuleChars \cup {".", "x"}

\* The rectangular layouts of at most MaxLayoutCells characters.
SmallLayouts ==
    UNION {[1 .. h -> [1 .. w -> LayoutChars]] :
               <<w, h>> \in {d \in (1 .. MaxLayoutCells) \X (1 .. MaxLayoutCells) :
                                d[1] * d[2] <= MaxLayoutCells}}

InitBuild ==
    /\ AssetsReady /\ IdleInside /\ IdleMove
    /\ phase = "BuildingStructures"
    /\ layout \in SmallLayouts
    /\ material \in ModuleMaterialTypes
    /\ ammo = None
    /\ grid = GridNew(0, 0)
    /\ modules = << >>
    /\ structure_density = 0
    /\ exposed_cells = {}
    /\ projectiles = << >>
    /\ collision_events = << >>
    /\ module_destroyed_events = << >>
    /\ depressurization_events = << >>
    /\ module_took_damage_events = << >>
    /\ commands = << >>
    /\ ran = {}
    /\ IdleControl /\ IdleFn

NextBuild == setup_structures_from_file

SpecBuild == InitBuild /\ [][NextBuild]_vars

(***************************************************************************)
(* SpecLoad: the construction from the layouts a structures file can hold, *)
(* rows of any length, the empty row and rows of different lengths         *)
(* included.                                                               *)
(***************************************************************************)
\* A row of the file: any string of layout characters.
FileRows == UNION {[1 .. n -> {"W", "C", "."}] : n \in 0 .. MaxRowLength}

\* The layouts of the file: one row at least (structure_data[0] is read).
FileLayouts == UNION {[1 .. h -> FileRows] : h \in 1 .. MaxRows}

InitLoad ==
    /\ AssetsReady /\ IdleInside /\ IdleMove
    /\ phase = "BuildingStructures"
    /\ layout \in FileLayouts
    /\ material \in {"Steel", "Wood"}
    /\ ammo = None
    /\ grid = GridNew(0, 0)
    /\ modules = << >>
    /\ structure_density = 0
    /\ exposed_cells = {}
    /\ projectiles = << >>
    /\ collision_events = << >>
    /\ module_destroyed_events = << >>
    /\ depressurization_events = << >>
    /\ module_took_damage_events = << >>
    /\ commands = << >>
    /\ ran = {}
    /\ IdleControl /\ IdleFn

SpecLoad == InitLoad /\ [][NextBuild]_vars

(***************************************************************************)
(* SpecAssets: the start of the application, from the two load requests of *)
(* setup to the game, with the two loads completing in any order.          *)
(***************************************************************************)
\* The asset server has finished loading the blob of a handle:
\* Assets<AssetBlob>::get returns it from now on.
asset_loaded ==
    /\ phase # "Panicked"
    /\ \E handle \in AssetStore \ blob_assets : blob_assets' = blob_assets \cup {handle}
    /\ UNCHANGED <<gameVars, controlVars, fnVars, level, world_grid, insideVars, moveVars>>

\* print_on_load, in Update while the state is LoadingAssets: returns when
\* both blobs are None; otherwise unwraps both and sets BuildingGrid.
\* Option::unwrap of a blob that is None panics.
print_on_load ==
    /\ phase = "LoadingAssets"
    /\ LET level_blob_is_none == "level_blob" \notin blob_assets
           structures_blob_is_none == "structures_blob" \notin blob_assets
       IN IF level_blob_is_none /\ structures_blob_is_none
          THEN phase' = phase
          ELSE IF level_blob_is_none \/ structures_blob_is_none
          THEN phase' = "Panicked"
          ELSE phase' = "BuildingGrid"
    /\ UNCHANGED <<layout, material, ammo, grid, modules, structure_density, exposed_cells,
                   projectiles, collision_events, module_destroyed_events,
                   depressurization_events, module_took_damage_events, commands, ran,
                   controlVars, fnVars, assetVars, insideVars, moveVars>>

\* setup_grid_from_file, on entering BuildingGrid: builds the Grid resource
\* from the level blob and sets BuildingStructures; panics without the blob.
setup_grid_from_file ==
    /\ phase = "BuildingGrid"
    /\ IF "level_blob" \in blob_assets
       THEN world_grid' = LevelGrid(level) /\ phase' = "BuildingStructures"
       ELSE world_grid' = world_grid /\ phase' = "Panicked"
    /\ UNCHANGED <<layout, material, ammo, grid, modules, structure_density, exposed_cells,
                   projectiles, collision_events, module_destroyed_events,
                   depressurization_events, module_took_damage_events, commands, ran,
                   controlVars, fnVars, blob_assets, level, insideVars, moveVars>>

\* After setup: both loads are requested and none has completed.
InitAssets ==
    /\ phase = "LoadingAssets"
    /\ blob_assets = {}
    /\ level \in Levels
    /\ world_grid = None
    /\ IdleInside /\ IdleMove
    /\ layout \in {LayoutPod, << <<"E", "C">> >>}
    /\ material \in {"Steel", "Wood"}
    /\ ammo = None
    /\ grid = GridNew(0, 0)
    /\ modules = << >>
    /\ structure_density = 0
    /\ exposed_cells = {}
    /\ projectiles = << >>
    /\ collision_events = << >>
    /\ module_destroyed_events = << >>
    /\ depressurization_events = << >>
    /\ module_took_damage_events = << >>
    /\ commands = << >>
    /\ ran = {}
    /\ IdleControl /\ IdleFn

NextAssets ==
    \/ asset_loaded
    \/ print_on_load
    \/ setup_grid_from_file
    \/ setup_structures_from_file

SpecAssets == InitAssets /\ [][NextAssets]_vars

(***************************************************************************)
(* SpecInside: the detection of the player inside the structures of a      *)
(* structures file, while the player and the structures move.              *)
(***************************************************************************)
MaxStructures == 2

\* Translations of a structure: that of its spawn and one it was flown to.
StructurePlaces == {STRUCTURE_POS, <<200, 200>>}

\* Positions of the player: inside the grid of a structure at either place,
\* and outside both.
PlayerPlaces == {<<-25, 225>>, <<175, 225>>, <<-100, 175>>}

\* Grid sizes of the structures of the file.
StructureGrids == {GridNew(1, 1), GridNew(2, 1)}

\* The entities of the structures, in spawn order.
StructureEntities == <<"structure1", "structure2">>

\* Structure::is_world_position_within_grid
is_world_position_within_grid(g, global_world_pos, structure_transform) ==
    is_within_grid_bounds(g, world_to_grid(g, global_world_pos, structure_transform))

PlayerEntered(player_entity, structure_entity) ==
    [kind |-> "PlayerEntered", player_entity |-> player_entity,
     structure_entity |-> structure_entity]

PlayerExited(player_entity, structure_entity) ==
    [kind |-> "PlayerExited", player_entity |-> player_entity,
     structure_entity |-> structure_entity]

\* The body of the inner loop of detect_player_inside_structure_system for
\* one player and the structures k .. Len(structures), in query order.
RECURSIVE DetectLoop(_, _, _)
DetectLoop(player_entity, k, st) ==
    IF k > Len(structures) THEN st
    ELSE LET within == is_world_position_within_grid(
                           structures[k].grid, player_pos[player_entity],
                           [translation |-> structures[k].translation, rotation |-> 0])
             structure_entity == StructureEntities[k]
             next == IF within
                     THEN IF st.inside_structure # structure_entity
                          THEN [inside_structure |-> structure_entity,
                                events |-> Append(st.events,
                                                  PlayerEntered(player_entity, structure_entity))]
                          ELSE st
                     ELSE IF st.inside_structure = structure_entity
                          THEN [inside_structure |-> None,
                                events |-> Append(st.events,
                                                  PlayerExited(player_entity, structure_entity))]
                          ELSE st
         IN DetectLoop(player_entity, k + 1, next)

\* detect_player_inside_structure_system (there is one Player entity)
detect_player_inside_structure_system ==
    /\ phase = "InGame"
    /\ inside_pc = "detect"
    /\ LET st == DetectLoop("player1", 1,
                            [inside_structure |-> inside_structure,
                             events |-> structure_interaction_events])
       IN /\ inside_structure' = st.inside_structure
          /\ structure_interaction_events' = st.events
    /\ inside_pc' = "make_child"
    /\ UNCHANGED <<gameVars, controlVars, fnVars, assetVars, structures, player_parent, moveVars>>

\* The parent of the player after the events, read in order: set_parent_in_place
\* for PlayerEntered, remove_parent_in_place for PlayerExited.
RECURSIVE ParentAfter(_, _)
ParentAfter(parent, events) ==
    IF events = << >> THEN parent
    ELSE ParentAfter(IF Head(events).kind = "PlayerEntered"
                     THEN Head(events).structure_entity ELSE None,
                     Tail(events))

\* make_player_child_of_structure_system, next in the chain: reads the events
\* of the frame; its commands are applied when the system has run.
make_player_child_of_structure_system ==
    /\ phase = "InGame"
    /\ inside_pc = "make_child"
    /\ player_parent' = ParentAfter(player_parent, structure_interaction_events)
    /\ structure_interaction_events' = << >>
    /\ inside_pc' = "physics"
    /\ UNCHANGED <<gameVars, controlVars, fnVars, assetVars, structures, inside_structure, moveVars>>

\* Between two frames the player and the structures move: the player walks
\* or is carried, a piloted structure flies.
physics_step ==
    /\ phase = "InGame"
    /\ inside_pc = "physics"
    /\ \E pos \in PlayerPlaces : player_pos' = [player_pos EXCEPT !["player1"] = pos]
    /\ \E moved \in SUBSET DOMAIN structures, place \in StructurePlaces :
          structures' = [k \in DOMAIN structures |->
                            IF k \in moved
                            THEN [structures[k] EXCEPT !.translation = place]
                            ELSE structures[k]]
    /\ inside_pc' = "detect"
    /\ UNCHANGED <<gameVars, key_presses, controlled_by, is_controlling_structure,
                   input_events, interaction_events, fnVars, assetVars,
                   inside_structure, structure_interaction_events, player_parent, moveVars>>

\* The game has been entered with the structures of the file, each spawned
\* at Vec3::new(0.0, 200.0, 1.0), and the player somewhere.
InitInside ==
    /\ AssetsReady /\ IdleMove
    /\ phase = "InGame"
    /\ layout = << >>
    /\ material = None
    /\ ammo = None
    /\ grid = GridNew(0, 0)
    /\ modules = << >>
    /\ structure_density = 0
    /\ exposed_cells = {}
    /\ projectiles = << >>
    /\ collision_events = << >>
    /\ module_destroyed_events = << >>
    /\ depressurization_events = << >>
    /\ module_took_damage_events = << >>
    /\ commands = << >>
    /\ ran = {}
    /\ \E pos \in PlayerPlaces : player_pos = [p \in {"player1"} |-> pos]
    /\ key_presses = 0
    /\ controlled_by = None
    /\ is_controlling_structure = FALSE
    /\ input_events = << >>
    /\ interaction_events = << >>
    /\ IdleFn
    /\ \E n \in 1 .. MaxStructures :
          structures \in [1 .. n -> {[translation |-> STRUCTURE_POS, grid |-> g] :
                                        g \in StructureGrids}]
    /\ inside_structure = None
    /\ structure_interaction_events = << >>
    /\ player_parent = None
    /\ inside_pc = "detect"

NextInside ==
    \/ detect_player_inside_structure_system
    \/ make_player_child_of_structure_system
    \/ physics_step

SpecInside == InitInside /\ [][NextInside]_vars

(***************************************************************************)
(* SpecMove: the movement systems of FixedUpdate in the frames of a        *)
(* structure that can be piloted and shot at.                              *)
(***************************************************************************)
\* Steps of FixedUpdate per second: time.delta_seconds() is its inverse.
FIXED_HZ == 64

STRUCTURE_MOVE_SPEED == 20 * UNIT_SCALE
STRUCTURE_MAX_SPEED == 100 * UNIT_SCALE
PLAYER_MOVE_SPEED == 5 * UNIT_SCALE
PLAYER_MAX_SPEED == 10 * UNIT_SCALE

\* The velocity after the Move events of a queue, each in the direction
\* (1, 0) of the D key: velocity.x += move_speed * delta_time, then
\* clamp_length_max(max_speed).  Velocities are counted in 1/FIXED_HZ.
RECURSIVE ApplyMoves(_, _, _, _)
ApplyMoves(velocity, events, move_speed, max_speed) ==
    IF events = << >> THEN velocity
    ELSE LET moved == velocity + move_speed
             clamped == IF moved > max_speed * FIXED_HZ THEN max_speed * FIXED_HZ ELSE moved
         IN ApplyMoves(clamped, Tail(events), move_speed, max_speed)

\* player_move_system: returns at once while a structure is controlled;
\* otherwise reads its events and moves every Player.
player_move_system ==
    /\ phase = "InGame"
    /\ ran = {}
    /\ "player_move" \notin fixed_ran
    /\ IF is_controlling_structure
       THEN UNCHANGED <<player_velocity, player_move_unread>>
       ELSE /\ player_velocity' = ApplyMoves(player_velocity, player_move_unread,
                                             PLAYER_MOVE_SPEED, PLAYER_MAX_SPEED)
            /\ player_move_unread' = << >>
    /\ fixed_ran' = fixed_ran \cup {"player_move"}
    /\ UNCHANGED <<gameVars, controlVars, fnVars, assetVars, insideVars,
                   structure_velocity, structure_move_unread>>

\* able_to_move without the test of the module type.
AbleToMoveAlways == TRUE

\* able_to_move: one child of the structure at least is an Engine module.
AbleToMove ==
    \E i \in DOMAIN modules :
        /\ modules[i].alive /\ modules[i].parent = StructureEntity
        /\ modules[i].module_type = "Engine"

\* controlled_structure_query.single_mut() succeeds: exactly one entity has
\* Structure, ControlledByPlayer, Children and the components of its rigid
\* body.  The structure always has its StructureSensor child.
SingleControlledStructure == controlled_by # None

\* structure_move_system: while a structure is controlled, looks the
\* structure up and, if it is able to move, reads its events and moves it.
structure_move_system ==
    /\ phase = "InGame"
    /\ ran = {}
    /\ "structure_move" \notin fixed_ran
    /\ IF ~is_controlling_structure
       THEN UNCHANGED <<phase, structure_velocity, structure_move_unread>>
       ELSE IF ~SingleControlledStructure
       THEN phase' = "Panicked" /\ UNCHANGED <<structure_velocity, structure_move_unread>>
       ELSE IF AbleToMove
       THEN /\ structure_velocity' = ApplyMoves(structure_velocity, structure_move_unread,
                                                STRUCTURE_MOVE_SPEED, STRUCTURE_MAX_SPEED)
            /\ structure_move_unread' = << >>
            /\ phase' = phase
       ELSE UNCHANGED <<phase, structure_velocity, structure_move_unread>>
    /\ fixed_ran' = fixed_ran \cup {"structure_move"}
    /\ UNCHANGED <<layout, material, ammo, grid, modules, structure_density, exposed_cells,
                   projectiles, collision_events, module_destroyed_events,
                   depressurization_events, module_took_damage_events, commands, ran,
                   controlVars, fnVars, assetVars, insideVars,
                   player_velocity, player_move_unread>>

\* A structure with an Engine and a CommandCenter.
LayoutSkiff == << <<"E", "C">> >>

\* The runs: a structure without an Engine and one with an Engine, of
\* Aluminum, under Ballistic projectiles, the player in the CommandCenter.
MoveConfigs == {LayoutPod, LayoutSkiff} \X {"Aluminum"} \X {"Ballistic"}

InitMove ==
    /\ AssetsReady /\ IdleInside /\ IdleMove
    /\ phase = "BuildingStructures"
    /\ \E c \in MoveConfigs : layout = c[1] /\ material = c[2] /\ ammo = c[3]
    /\ grid = GridNew(0, 0)
    /\ modules = << >>
    /\ structure_density = 0
    /\ exposed_cells = {}
    /\ projectiles = << >>
    /\ collision_events = << >>
    /\ module_destroyed_events = << >>
    /\ depressurization_events = << >>
    /\ module_took_damage_events = << >>
    /\ commands = << >>
    /\ ran = {}
    /\ \E spot \in PilotSpots(Built(layout, material)) :
          player_pos = [p \in {"player1"} |-> spot]
    /\ key_presses = MaxKeyPresses
    /\ controlled_by = None
    /\ is_controlling_structure = FALSE
    /\ input_events = << >>
    /\ interaction_events = << >>
    /\ IdleFn

NextMove ==
    \/ setup_structures_from_file
    \/ structure_shoot_system
    \/ player_move_system
    \/ structure_move_system
    \/ keyboard_input
    \/ control_command_center_system
    \/ projectile_hit_system
    \/ apply_deferred
    \/ projectile_lifetime_system
    \/ handle_module_destroyed_system
    \/ handle_depressurization_system
    \/ end_frame

SpecMove == InitMove /\ [][NextMove]_vars

(***************************************************************************)
(* SpecCoords: the conversions between grid and world coordinates, for     *)
(* every cell of every small grid and a structure at several places and    *)
(* rotations.                                                              *)
(***************************************************************************)
\* Translations of the structure's Transform: that of the spawn and others
\* the physics step moves it to.
TransformTranslations == {STRUCTURE_POS, <<0 - 137, 12>>, <<1013, 0 - 488>>}

\* Rotations of the structure's Transform, in quarter turns about z.
QuarterTurns == 0 .. 3

CoordInputs ==
    {[grid |-> GridNew(w, h),
      structure_transform |-> [translation |-> t, rotation |-> q],
      grid_pos |-> c] :
        w \in 1 .. MaxGridSide, h \in 1 .. MaxGridSide,
        t \in TransformTranslations, q \in QuarterTurns,
        c \in (0 .. (MaxGridSide - 1)) \X (0 .. (MaxGridSide - 1))}

InitCoords ==
    /\ AssetsReady /\ IdleInside /\ IdleMove
    /\ IdleGame /\ IdleControl
    /\ fn_pc = "coords_in"
    /\ fn_in \in {i \in CoordInputs : is_within_grid_bounds(i.grid, i.grid_pos)}
    /\ fn_out = None

\* Structure::grid_to_world_position of the cell.
StructureGridToWorld ==
    /\ fn_pc = "coords_in"
    /\ fn_out' = grid_to_world_position(fn_in.grid, fn_in.grid_pos, fn_in.structure_transform)
    /\ fn_pc' = "structure_world"
    /\ UNCHANGED <<fn_in, gameVars, controlVars, assetVars, insideVars, moveVars>>

\* Structure::world_to_grid of the position the step before gave.
StructureWorldToGrid ==
    /\ fn_pc = "structure_world"
    /\ fn_out' = world_to_grid(fn_in.grid, fn_out, fn_in.structure_transform)
    /\ fn_pc' = "structure_grid"
    /\ UNCHANGED <<fn_in, gameVars, controlVars, assetVars, insideVars, moveVars>>

\* Grid::grid_to_world of the cell.
PlainGridToWorld ==
    /\ fn_pc = "coords_in"
    /\ fn_out' = GridToWorld(fn_in.grid, fn_in.grid_pos)
    /\ fn_pc' = "grid_world"
    /\ UNCHANGED <<fn_in, gameVars, controlVars, assetVars, insideVars, moveVars>>

\* Grid::world_to_grid of the position the step before gave.
PlainWorldToGrid ==
    /\ fn_pc = "grid_world"
    /\ fn_out' = GridWorldToGrid(fn_in.grid, fn_out)
    /\ fn_pc' = "grid_grid"
    /\ UNCHANGED <<fn_in, gameVars, controlVars, assetVars, insideVars, moveVars>>

\* The world point of the centre of a cell of a structure: the point
\* Structure::grid_to_world_position gives in the structure's own frame,
\* turned by the rotation of the Transform and moved by its translation, as
\* the transform of a parent places what it carries.
CellCentreInWorld(g, grid_pos, structure_transform) ==
    LET own == grid_to_world_position(g, grid_pos, [translation |-> <<0, 0>>, rotation |-> 0])
        turned == Rotate(own, structure_transform.rotation)
    IN <<structure_transform.translation[1] + turned[1],
         structure_transform.translation[2] + turned[2]>>

\* Structure::world_to_grid of the point where the centre of the cell lies.
LocateCellCentre ==
    /\ fn_pc = "coords_in"
    /\ fn_out' = world_to_grid(fn_in.grid,
                               CellCentreInWorld(fn_in.grid, fn_in.grid_pos,
                                                 fn_in.structure_transform),
                               fn_in.structure_transform)
    /\ fn_pc' = "centre_grid"
    /\ UNCHANGED <<fn_in, gameVars, controlVars, assetVars, insideVars, moveVars>>

NextCoords ==
    \/ StructureGridToWorld
    \/ StructureWorldToGrid
    \/ PlainGridToWorld
    \/ PlainWorldToGrid
    \/ LocateCellCentre

SpecCoords == InitCoords /\ [][NextCoords]_vars

(***************************************************************************)
(* C7  Flood-fill correctness.  For every grid the exposed set returned by *)
(* check_pressurization is exactly the set of in-bounds non-Module cells   *)
(* joined to a non-Module boundary cell by a chain of N/E/S/W-adjacent     *)
(* non-Module cells: it holds no Module cell, every non-Module boundary    *)
(* cell is in it, and a cell that touches the exposed region only          *)
(* diagonally, or lies in a region enclosed by Module cells, is not.       *)
(***************************************************************************)
Abs(n) == IF n < 0 THEN -n ELSE n
Adjacent4(c, d) == Abs(c[1] - d[1]) + Abs(c[2] - d[2]) = 1

OpenCells(g) == {c \in GridCells(g.width, g.height) : g.cells[c] # "Module"}

\* The least set that holds the open boundary cells and is closed under
\* stepping to a 4-adjacent open cell.
RECURSIVE ConnectedClosure(_, _)
ConnectedClosure(g, S) ==
    LET T == S \cup {c \in OpenCells(g) : \E d \in S : Adjacent4(c, d)}
    IN IF T = S THEN S ELSE ConnectedClosure(g, T)

ConnectedToBoundary(g) ==
    ConnectedClosure(g, {c \in OpenCells(g) : IsBoundaryCell(g, c)})

C7_FloodFillCorrect ==
    fn_pc = "flood_out" =>
        /\ fn_out = ConnectedToBoundary(fn_in)
        /\ \A c \in fn_out : is_within_grid_bounds(fn_in, c) /\ fn_in.cells[c] # "Module"
        /\ \A c \in OpenCells(fn_in) : IsBoundaryCell(fn_in, c) => c \in fn_out

\* A 3x3 grid whose corner (0,0) and centre (1,1) are Empty and whose other
\* cells are Modules: the corner is exposed, the centre (enclosed, and
\* touching the corner only diagonally) is not.
C7_Witness ==
    /\ fn_pc = "flood_out"
    /\ fn_in.width = 3 /\ fn_in.height = 3
    /\ OpenCells(fn_in) = {<<0, 0>>, <<1, 1>>}
    /\ fn_out = {<<0, 0>>}

(***************************************************************************)
(* Claims about the structure under fire (Spec).                           *)
(***************************************************************************)
InGame == phase = "InGame"

\* The live modules that are children of the structure and sit at cell c.
AttachedAt(c) ==
    {i \in DOMAIN modules :
        modules[i].alive /\ modules[i].parent = StructureEntity
                         /\ modules[i].inner_grid_pos = c}

\* The steps of the two handlers.
DestroyedStep == "destroyed" \notin ran /\ "destroyed" \in ran'
DepressStep == "depress" \notin ran /\ "depress" \in ran'

(***************************************************************************)
(* C3  Cell/module correspondence.  In every state from the end of the     *)
(* construction on, a cell of the structure's grid has type Module if and  *)
(* only if exactly one live module attached to the structure has that cell *)
(* as inner_grid_pos.                                                      *)
(***************************************************************************)
C3_CellModuleCorrespondence ==
    InGame =>
        \A c \in DOMAIN grid.cells :
            (grid.cells[c] = "Module") <=> (Cardinality(AttachedAt(c)) = 1)

(***************************************************************************)
(* C4  Every module whose structural points are at or below zero is        *)
(* destroyed: as long as it is alive its destruction is under way, that    *)
(* is, its ModuleDestroyedEvent is still to be handled or its despawn is   *)
(* queued.  Attached modules and detached free bodies alike.               *)
(***************************************************************************)
DestructionUnderWay(i) ==
    \/ \E k \in DOMAIN module_destroyed_events :
          module_destroyed_events[k].destroyed_entity = ModuleEntity(i)
    \/ \E k \in DOMAIN commands : commands[k] = Cmd("despawn", ModuleEntity(i))

C4_DestroyedModulesDespawned ==
    \A i \in DOMAIN modules :
        (modules[i].alive /\ modules[i].has_material /\ modules[i].structural_points <= 0)
            => DestructionUnderWay(i)

(***************************************************************************)
(* C5  Destruction monotonicity.  No step raises the structural points of  *)
(* a module: a handled collision leaves them at or below their previous    *)
(* value for every pair of projectile and module material, and every other *)
(* step leaves them as they are.                                           *)
(***************************************************************************)
HitStep == "hit" \notin ran /\ "hit" \in ran'

C5_StructuralPointsNeverIncrease ==
    [][\A i \in DOMAIN modules :
           /\ i \in DOMAIN modules'
           /\ modules'[i].structural_points <= modules[i].structural_points
           /\ ~HitStep => modules'[i].structural_points = modules[i].structural_points]_vars

\* A steel module that took one ballistic hit and stands, next to one that
\* was not hit.
C5_Witness ==
    /\ InGame
    /\ \E i, k \in DOMAIN modules :
          /\ modules[i].alive /\ modules[i].has_material
          /\ modules[i].structural_points > 0
          /\ modules[i].structural_points < ModuleStructuralPoints(material)
          /\ modules[k].structural_points = ModuleStructuralPoints(material)

(***************************************************************************)
(* C6  Irreversibility.  After the construction the set of Module cells    *)
(* only shrinks: no cell is added, a cell that is Empty stays Empty; and a *)
(* module that has left the structure (detached or despawned) never gets a *)
(* parent again, a despawned one never comes back.                         *)
(***************************************************************************)
C6_Irreversible ==
    [][InGame =>
          /\ DOMAIN grid'.cells = DOMAIN grid.cells
          /\ \A c \in DOMAIN grid.cells :
                grid.cells[c] = "Empty" => grid'.cells[c] = "Empty"
          /\ \A i \in DOMAIN modules :
                /\ modules[i].parent = None => modules'[i].parent = None
                /\ ~modules[i].alive => ~modules'[i].alive]_vars

\* A destroyed module is gone and its cell is Empty; another module floats
\* free and its cell is Empty as well.
C6_Witness ==
    /\ InGame
    /\ \E i, k \in DOMAIN modules :
          /\ ~modules[i].alive /\ modules[i].structural_points <= 0
          /\ grid.cells[modules[i].inner_grid_pos] = "Empty"
          /\ modules[k].alive /\ modules[k].parent = None
          /\ grid.cells[modules[k].inner_grid_pos] = "Empty"

(***************************************************************************)
(* C8  The exposed set is in sync with the grid.  In every state of the    *)
(* game, and so after every handler and at the end of every frame, the     *)
(* exposed_cells of the Pressurization equal the connectivity analysis of  *)
(* the grid as it is.                                                      *)
(***************************************************************************)
C8_ExposedInSync ==
    InGame => exposed_cells = ConnectedToBoundary(grid)

\* A breach has been handled: the exposed set has grown beyond the one the
\* structure was built with and reaches a cell that held a module.
C8_Witness ==
    /\ InGame
    /\ "depress" \in ran
    /\ exposed_cells # SeedExposed(Built(layout, material).grid)
    /\ \E i \in DOMAIN modules :
          /\ modules[i].rigid_body = "Dynamic"
          /\ modules[i].inner_grid_pos \in exposed_cells

(***************************************************************************)
(* C9  Breach cascade, trigger and effect.  A destruction that opens a     *)
(* sealed region (an Empty cell next to the destroyed module that was      *)
(* outside the exposed set before) sends one depressurization event, a     *)
(* destruction that opens none sends no event, and nothing else sends one. *)
(* When the event is handled, every attached module whose Module cell is   *)
(* next to an exposed cell (the previously sealed ones among them) has its *)
(* cell set to Empty and its detachment as a dynamic body queued.  A       *)
(* module leaves the structure alive only through that handler, and a free *)
(* module is a dynamic body.                                               *)
(***************************************************************************)
\* Before the destruction at pos, an Empty cell next to pos is cut off from
\* the boundary of g.
OpensSealedRegion(g, pos) ==
    \E c \in GridCells(g.width, g.height) :
        /\ Adjacent4(c, pos)
        /\ g.cells[c] = "Empty"
        /\ c \notin ConnectedToBoundary(g)

\* The number of destructions in a run of the destroyed handler that open a
\* sealed region; an event for an entity without parent destroys nothing.
RECURSIVE Breaches(_, _)
Breaches(events, g) ==
    IF events = << >> THEN 0
    ELSE LET pos == Head(events).inner_grid_pos
             handled == HasParent(Head(events).destroyed_entity)
         IN IF handled
            THEN (IF OpensSealedRegion(g, pos) THEN 1 ELSE 0)
                     + Breaches(Tail(events), [g EXCEPT !.cells[pos] = "Empty"])
            ELSE Breaches(Tail(events), g)

Queued(cmds, op, i) == \E k \in DOMAIN cmds : cmds[k] = Cmd(op, ModuleEntity(i))

NextToExposed(pos, exposed) ==
    \E c \in exposed : Adjacent4(c, pos)

ExposedAtConstruction == SeedExposed(Built(layout, material).grid)

NewlyExposed == exposed_cells \ ExposedAtConstruction

QueuedFor(cmds, i) == \E k \in DOMAIN cmds : cmds[k].entity = ModuleEntity(i)

C10_CascadeFrame ==
    [][(InGame /\ DepressStep) =>
          \A i \in DOMAIN modules :
              LET pos == modules[i].inner_grid_pos IN
              (/\ modules[i].alive /\ modules[i].parent = StructureEntity
               /\ grid.cells[pos] = "Module"
               /\ ~NextToExposed(pos, NewlyExposed))
                  => /\ grid'.cells[pos] = "Module"
                     /\ QueuedFor(commands', i) => QueuedFor(commands, i)]_vars

(***************************************************************************)
(* Claims about piloting (SpecControl).                                    *)
(***************************************************************************)
ControlStep == ran = {"input"} /\ "control" \in ran'

\* The command centers of the structure.
CommandCenters ==
    {i \in DOMAIN modules :
        /\ modules[i].alive /\ modules[i].parent = StructureEntity
        /\ modules[i].module_type = "CommandCenter"}

\* The players whose position maps to the cell of command center i.
PlayersIn(i) ==
    {p \in DOMAIN player_pos : world_to_grid(grid, player_pos[p], StructureTransform) = modules[i].inner_grid_pos}

SpacePending == \E k \in DOMAIN input_events : input_events[k].action = "SpacePressed"

ControlUnchanged ==
    UNCHANGED <<modules, commands, controlled_by, is_controlling_structure, interaction_events>>

(***************************************************************************)
(* C1  Control exclusivity.  The controller of a CommandCenter is empty or *)
(* one agent, and no step hands a controlled CommandCenter to another      *)
(* agent.  When SpacePressed is handled and every player in the cell of a  *)
(* command center is another agent than its controller, nothing happens:   *)
(* the controller, the ControlledByPlayer marker and                       *)
(* is_controlling_structure stay and no ModuleInteractionEvent is sent.    *)
(***************************************************************************)
C1_ControlExclusive ==
    [][/\ \A i \in DOMAIN modules : modules[i].entity_connected \in Players \cup {None}
       /\ \A i \in CommandCenters :
             modules[i].entity_connected # None =>
                 modules'[i].entity_connected \in {modules[i].entity_connected, None}
       /\ (/\ ControlStep
           /\ SpacePending
           /\ \A i \in CommandCenters :
                 /\ modules[i].entity_connected # None
                 /\ modules[i].entity_connected \notin PlayersIn(i))
              => ControlUnchanged]_vars

\* player1 controls the command center and has left its cell, player2
\* stands in the cell, and the handler is about to read a SpacePressed.
C1_Witness ==
    /\ ran = {"input"}
    /\ SpacePending
    /\ \E i \in CommandCenters :
          /\ modules[i].entity_connected = "player1"
          /\ PlayersIn(i) = {"player2"}
    /\ controlled_by = "player1"
    /\ is_controlling_structure

(***************************************************************************)
(* C2  Control state machine.  When the handler reads one SpacePressed     *)
(* and one agent stands in the cell of a CommandCenter: if the structure   *)
(* is unpiloted the agent becomes the controller, the insertion of         *)
(* ControlledByPlayer is queued, is_controlling_structure is true and one  *)
(* TakeControl is sent; if the agent is the controller the controller is   *)
(* cleared, the removal of the marker is queued, the flag is false and one *)
(* ReleaseControl is sent.  When no agent stands in a CommandCenter cell   *)
(* the handler changes nothing.  Once the commands are applied the marker  *)
(* names the controller.                                                   *)
(***************************************************************************)
OneSpacePending ==
    Cardinality({k \in DOMAIN input_events : input_events[k].action = "SpacePressed"}) = 1

StructureCommandQueued == \E k \in DOMAIN commands : commands[k].entity[1] = "structure"

C2_ControlStateMachine ==
    [][InGame =>
          /\ (~StructureCommandQueued) =>
                \A i \in CommandCenters : controlled_by = modules[i].entity_connected
          /\ ControlStep =>
                /\ (\A i \in CommandCenters : PlayersIn(i) = {}) =>
                      ControlUnchanged /\ UNCHANGED input_events
                /\ \A i \in CommandCenters : \A p \in PlayersIn(i) :
                      (PlayersIn(i) = {p} /\ OneSpacePending) =>
                          /\ modules[i].entity_connected = None =>
                                /\ modules'[i].entity_connected = p
                                /\ commands' = Append(commands, InsertControlledBy(p))
                                /\ is_controlling_structure'
                                /\ interaction_events' =
                                       Append(interaction_events,
                                              [kind |-> "TakeControl", player_entity |-> p])
                          /\ modules[i].entity_connected = p =>
                                /\ modules'[i].entity_connected = None
                                /\ commands' = Append(commands, RemoveControlledBy)
                                /\ ~is_controlling_structure'
                                /\ interaction_events' =
                                       Append(interaction_events,
                                              [kind |-> "ReleaseControl", player_entity |-> p])]_vars

\* The controller has just released the structure it had taken.
C2_Witness ==
    /\ InGame
    /\ \E p \in DOMAIN player_pos :
          interaction_events = << [kind |-> "ReleaseControl", player_entity |-> p] >>
    /\ \A i \in CommandCenters : modules[i].entity_connected = None
    /\ controlled_by # None
    /\ commands = << RemoveControlledBy >>
    /\ ~is_controlling_structure

(***************************************************************************)
(* Claims about the breach force and the collisions (Spec).                *)
(***************************************************************************)
\* The commands a step has added to the queue.
NewCommands ==
    IF Len(commands') >= Len(commands)
    THEN SubSeq(commands', Len(commands) + 1, Len(commands'))
    ELSE << >>

\* Vectors a and b point the same way.
SameDirection(a, b) ==
    /\ a[1] * b[2] - a[2] * b[1] = 0
    /\ a[1] * b[1] + a[2] * b[2] > 0

(***************************************************************************)
(* C11  Every module a breach cascade detaches receives a force that is    *)
(* not zero and points along the vector from the centre of the structure   *)
(* to the module, both taken in the frame of the structure.                *)
(***************************************************************************)
C11_ForceFromCenter ==
    [][(InGame /\ DepressStep) =>
          \A k \in DOMAIN NewCommands :
              NewCommands[k].op = "insert_force" =>
                  LET module == modules[NewCommands[k].entity[2]]
                      force == NewCommands[k].force
                  IN /\ ~force.nan
                     /\ SameDirection(force.along, ModuleTranslation(grid, module))]_vars

\* A stored pair of a live projectile and a live module; the model stores
\* such a pair with the projectile first, the order in which the handler
\* sees the two is drawn when it reads the event.
ProjectileModulePair(ev) ==
    /\ ev[1][1] = "projectile" /\ projectiles[ev[1][2]].alive
    /\ ev[2][1] = "module" /\ modules[ev[2][2]].alive

ProjectileModulePairs == SelectSeq(collision_events, ProjectileModulePair)

DestroyedEventsFor(events, i) ==
    Cardinality({k \in DOMAIN events : events[k].destroyed_entity = ModuleEntity(i)})

DespawnsFor(cmds, i) ==
    Cardinality({k \in DOMAIN cmds : cmds[k] = Cmd("despawn", ModuleEntity(i))})

C13_DestroyedOnce ==
    [][InGame =>
          /\ HitStep =>
                \A i \in DOMAIN modules :
                    /\ DestroyedEventsFor(module_destroyed_events', i) <= 1
                    /\ (modules[i].has_material /\ modules[i].structural_points <= 0) =>
                          /\ modules'[i].structural_points = modules[i].structural_points
                          /\ DestroyedEventsFor(module_destroyed_events', i)
                                 = DestroyedEventsFor(module_destroyed_events, i)
          /\ DestroyedStep =>
                \A i \in DOMAIN modules : DespawnsFor(commands', i) <= 1]_vars

(***************************************************************************)
(* C14  Collision pair filtering.  A pair that is not a projectile and a   *)
(* module changes nothing: a module that no projectile hits keeps its      *)
(* structural points and gets no event, and the commands the handler       *)
(* queues are the despawns of the projectiles of the projectile and module *)
(* pairs and nothing else.  The outcome of a projectile and module pair    *)
(* does not depend on which of the two the event names first.              *)
(***************************************************************************)
\* The structural points of module i after the hits of the pairs in events.
RECURSIVE PointsAfterPairs(_, _, _)
PointsAfterPairs(events, i, points) ==
    IF events = << >> THEN points
    ELSE LET ev == Head(events)
             projectile == projectiles[ev[1][2]]
         IN IF ev[2] = ModuleEntity(i)
            THEN PointsAfterPairs(Tail(events), i,
                                  points - Damage(projectile.mass, projectile.speed,
                                                  projectile.material_type,
                                                  modules[i].material_type))
            ELSE PointsAfterPairs(Tail(events), i, points)

C14_PairFiltering ==
    [][(InGame /\ HitStep) =>
          /\ NewCommands = [k \in DOMAIN ProjectileModulePairs |->
                               Cmd("despawn", ProjectileModulePairs[k][1])]
          /\ \A i \in DOMAIN modules :
                /\ modules'[i].structural_points
                       = PointsAfterPairs(ProjectileModulePairs, i, modules[i].structural_points)
                /\ (\A k \in DOMAIN ProjectileModulePairs :
                        ProjectileModulePairs[k][2] # ModuleEntity(i))
                      => /\ modules'[i] = modules[i]
                         /\ DestroyedEventsFor(module_destroyed_events', i)
                                = DestroyedEventsFor(module_destroyed_events, i)
          /\ UNCHANGED <<projectiles, grid, exposed_cells, depressurization_events>>]_vars

\* The handler is about to read a projectile and module pair together with
\* a pair of another kind.
C14_Witness ==
    /\ InGame
    /\ "control" \in ran /\ "hit" \notin ran
    /\ Len(collision_events) = 2
    /\ Len(ProjectileModulePairs) = 1
    /\ \E k \in DOMAIN collision_events :
          collision_events[k][2][1] \in {"sensor", "projectile"}
             \/ collision_events[k][1][1] = "module"

(***************************************************************************)
(* Claims about the damage of one collision (SpecDamage).                  *)
(***************************************************************************)
\* (0.5 * mass * speed^2) * (projectile.density / target.density)
\*     * (projectile.yield_strength / target.yield_strength) / target.yield_strength,
\* in whole structural points.
ClaimedDamage(mass, speed, projectile_material, module_material) ==
    LET p == ProjectileProperties(projectile_material)
        t == ModuleProperties(module_material)
        energy == (mass * speed * speed) \div 2
        hardness == Ratio(p.yield_strength, t.yield_strength)
        dens == Ratio(p.density, t.density)
    IN ((((energy \div t.yield_strength) * hardness[1]) \div hardness[2]) * dens[1]) \div dens[2]

\* a and b agree up to the rounding of whole-number arithmetic: one part in
\* a thousand and one point.
AgreeUpToRounding(a, b) ==
    /\ 1000 * (a - b) <= b + 1000
    /\ 1000 * (b - a) <= b + 1000

\* The module and the projectile of the only projectile and module pair of
\* the events the handler is about to read.
TheHitModule == ProjectileModulePairs[1][2][2]
TheHitProjectile == projectiles[ProjectileModulePairs[1][1][2]]

(***************************************************************************)
(* C15  Damage formula.  A handled collision deducts the kinetic energy    *)
(* times the density factor times the hardness factor over the yield       *)
(* strength of the target, a function of the projectile's mass, speed and  *)
(* material and of the target's material: the same for a fresh and a       *)
(* damaged module, for a piloted and an unpiloted structure.  The handler  *)
(* leaves the control state as it is.                                      *)
(***************************************************************************)
C15_DamageFormula ==
    [][(InGame /\ HitStep) =>
          /\ UNCHANGED <<controlled_by, is_controlling_structure, input_events,
                         interaction_events, player_pos>>
          /\ \A i \in DOMAIN modules :
                modules'[i].entity_connected = modules[i].entity_connected
          /\ Len(ProjectileModulePairs) = 1 =>
                AgreeUpToRounding(
                    modules[TheHitModule].structural_points
                        - modules'[TheHitModule].structural_points,
                    ClaimedDamage(TheHitProjectile.mass, TheHitProjectile.speed,
                                  TheHitProjectile.material_type,
                                  modules[TheHitModule].material_type))]_vars

\* A projectile has just hit a module that an earlier hit had damaged, after
\* the pilot released the structure.
C15_Witness ==
    /\ InGame
    /\ "hit" \in ran /\ "sync" \notin ran
    /\ controlled_by = None
    /\ \A i \in DOMAIN modules : modules[i].entity_connected = None
    /\ commands = << Cmd("despawn", ProjectileEntity(2)) >>
    /\ ~projectiles[1].alive
    /\ \E i \in DOMAIN modules :
          /\ modules[i].alive
          /\ Damage(projectiles[2].mass, projectiles[2].speed, ammo, material) > 0
          /\ modules[i].structural_points
                 = ModuleStructuralPoints(material)
                       - 2 * Damage(projectiles[2].mass, projectiles[2].speed, ammo, material)

(***************************************************************************)
(* C16  Emitted notifications.  A handled collision that leaves the module *)
(* above zero structural points sends one ModuleTookDamageEvent with the   *)
(* module entity and the damage; one that brings it to zero or below sends *)
(* a ModuleDestroyedEvent with the module entity and its grid position and *)
(* no damage-taken event.                                                  *)
(***************************************************************************)
C16_Notifications ==
    [][(InGame /\ HitStep /\ Len(ProjectileModulePairs) = 1) =>
          LET i == TheHitModule
              damage == modules[i].structural_points - modules'[i].structural_points
          IN /\ modules'[i].structural_points > 0 =>
                   /\ module_took_damage_events'
                          = Append(module_took_damage_events,
                                   [module_entity |-> ModuleEntity(i), damage |-> damage])
                   /\ module_destroyed_events' = module_destroyed_events
             /\ modules'[i].structural_points <= 0 =>
                   /\ module_destroyed_events'
                          = Append(module_destroyed_events,
                                   [destroyed_entity |-> ModuleEntity(i),
                                    inner_grid_pos   |-> modules[i].inner_grid_pos])
                   /\ module_took_damage_events' = module_took_damage_events]_vars

(***************************************************************************)
(* Claims about the grid and its coordinates.                              *)
(***************************************************************************)
\* The coordinates around the grid of a structure, one cell beyond each edge.
NearGrid == ((0 - 1) .. grid.width) \X ((0 - 1) .. grid.height)

(***************************************************************************)
(* C17  Grid bounds.  Every key (x, y) of the cell map of the structure's  *)
(* grid has 0 <= x < width and 0 <= y < height, and Grid::get gives        *)
(* nothing for a coordinate out of that range, the inserts of the          *)
(* construction from a non-square layout included.                         *)
(***************************************************************************)
C17_GridBounds ==
    /\ \A k \in DOMAIN grid.cells :
          /\ 0 <= k[1] /\ k[1] < grid.width
          /\ 0 <= k[2] /\ k[2] < grid.height
    /\ \A c \in NearGrid :
          ~(0 <= c[1] /\ c[1] < grid.width /\ 0 <= c[2] /\ c[2] < grid.height)
              => GridGet(grid, c) = None

(***************************************************************************)
(* C18  Round trip.  For every cell (x, y) within the grid, every place    *)
(* and every rotation of the structure, Structure::world_to_grid of        *)
(* Structure::grid_to_world_position of (x, y) is (x, y); and              *)
(* Grid::world_to_grid of Grid::grid_to_world of (x, y) is (x, y).         *)
(***************************************************************************)
C18_RoundTrip ==
    /\ fn_pc = "structure_grid" => fn_out = fn_in.grid_pos
    /\ fn_pc = "grid_grid" => fn_out = fn_in.grid_pos

\* The round trip through the structure has been made for the cell (2, 1) of
\* a 3 by 2 grid, the structure a quarter turn round and away from its spawn.
C18_Witness ==
    /\ fn_pc = "structure_grid"
    /\ fn_in.grid.width = 3 /\ fn_in.grid.height = 2
    /\ fn_in.grid_pos = <<2, 1>>
    /\ fn_in.structure_transform.rotation = 1
    /\ fn_in.structure_transform.translation # STRUCTURE_POS
    /\ fn_out = <<2, 1>>

(***************************************************************************)
(* C19  Rotation-aware conversion.  For a structure at any place, turned   *)
(* by a multiple of 90 degrees, Structure::world_to_grid maps the world    *)
(* point at which the centre of the cell (x, y) lies after the rotation to *)
(* (x, y), with the rotation of the transform it is given.                 *)
(***************************************************************************)
C19_RotationAware ==
    fn_pc = "centre_grid" => fn_out = fn_in.grid_pos

(***************************************************************************)
(* Claims about the construction from a layout (SpecBuild).                *)
(***************************************************************************)
\* The live modules whose grid position is c.
ModulesAt(c) == {i \in DOMAIN modules : modules[i].alive /\ modules[i].inner_grid_pos = c}

\* The module type the layout format gives a character.
TypeOfLayoutChar(ch) ==
    CASE ch = "E" -> "Engine"
      [] ch = "C" -> "CommandCenter"
      [] ch = "W" -> "Wall"
      [] ch = "!" -> "Cannon"
      [] OTHER -> None

Malformed(rows) ==
    \/ Len(rows[1]) = 0
    \/ \E y \in DOMAIN rows : Len(rows[y]) # Len(rows[1])

(***************************************************************************)
(* C21  Malformed layout rejection.  From a layout whose first row is      *)
(* empty or whose rows differ in length no structure with a grid is        *)
(* constructed, and the game state does not advance from                   *)
(* BuildingStructures to InGame.                                           *)
(***************************************************************************)
C21_MalformedRejected ==
    Malformed(layout) =>
        /\ phase = "BuildingStructures"
        /\ grid = GridNew(0, 0)
        /\ modules = << >>

(***************************************************************************)
(* Claims about the order of the systems within a frame (SpecDamage).      *)
(***************************************************************************)
FrameEndStep == ran = Systems /\ ran' = {}

(***************************************************************************)
(* C22  Tick ordering.  Within one frame projectile_hit_system runs before *)
(* handle_module_destroyed_system, which runs before                       *)
(* handle_depressurization_system; so a ModuleDestroyedEvent and the       *)
(* StructureDepressurizationEvent it causes are consumed in the frame that *)
(* produced them: none is left unread when the frame ends.                 *)
(***************************************************************************)
C22_TickOrdering ==
    [][InGame =>
          /\ DestroyedStep => "hit" \in ran
          /\ DepressStep => "destroyed" \in ran
          /\ FrameEndStep => /\ module_destroyed_events = << >>
                             /\ depressurization_events = << >>]_vars

(***************************************************************************)
(* Claims about the pilot of a structure under fire (SpecDamage).          *)
(***************************************************************************)
\* The command centers that are live children of the structure and have a
\* player as controller.
PilotedCommandCenters ==
    {i \in DOMAIN modules :
        /\ modules[i].alive
        /\ modules[i].parent = StructureEntity
        /\ modules[i].module_type = "CommandCenter"
        /\ modules[i].entity_connected \in DOMAIN player_pos}

(***************************************************************************)
(* C28  Release is always possible.  Whenever is_controlling_structure is  *)
(* true the structure still has as a child the CommandCenter whose         *)
(* controller is the player: a breach cascade neither destroys nor         *)
(* detaches it, so the controller can release with one take-control        *)
(* action.                                                                 *)
(***************************************************************************)
C28_ReleasePossible ==
    is_controlling_structure => PilotedCommandCenters # {}

(***************************************************************************)
(* Claims about what one projectile does (Spec).                           *)
(***************************************************************************)
\* The modules that lose structural points in a run of the hit handler and
\* that a collision event of the run pairs with projectile j.
DamagedBy(j) ==
    {i \in DOMAIN modules :
        /\ modules'[i].structural_points # modules[i].structural_points
        /\ \E k \in DOMAIN ProjectileModulePairs :
              ProjectileModulePairs[k] = <<ProjectileEntity(j), ModuleEntity(i)>>}

(***************************************************************************)
(* C30  A projectile damages at most one module: over all the collision    *)
(* events that name it, several of one frame included, structural points   *)
(* are deducted from one module at most.                                   *)
(***************************************************************************)
C30_OneModulePerProjectile ==
    [][(InGame /\ HitStep) =>
          \A j \in DOMAIN projectiles : Cardinality(DamagedBy(j)) <= 1]_vars

(***************************************************************************)
(* Claims about the life of a projectile (LiveLife).                       *)
(***************************************************************************)
\* Projectile j exists.
Exists(j) == j \in DOMAIN projectiles /\ projectiles[j].alive

(***************************************************************************)
(* C24  Projectile lifetime.  Every projectile that is created is          *)
(* destroyed in the end, by its first collision with a module or by the    *)
(* end of its timer: from some frame on none of the projectiles of the run *)
(* exists.  And no projectile whose timer has finished exists when a frame *)
(* begins, one that collided in the frame its timer finished included.     *)
(***************************************************************************)
C24_ProjectileLifetime ==
    /\ <>[](\A j \in DOMAIN projectiles : ~Exists(j))
    /\ [](ran = {} => \A j \in DOMAIN projectiles :
                          projectiles[j].alive => projectiles[j].timer > 0)

\* The timer of projectile 1 has just finished without any collision: its
\* despawn is queued and the module it was shot from is untouched.
C24_Witness ==
    /\ InGame
    /\ "lifetime" \in ran
    /\ Exists(1) /\ projectiles[1].timer = 0
    /\ \E k \in DOMAIN commands : commands[k] = Cmd("despawn", ProjectileEntity(1))
    /\ \A i \in DOMAIN modules :
          modules[i].has_material =>
              modules[i].structural_points = ModuleStructuralPoints(material)

(***************************************************************************)
(* Claims about the placement of the modules (SpecBuild).                  *)
(***************************************************************************)
\* The world position of the centre of module i: the translation of the
\* structure plus the translation the module was spawned with.
ModuleCentre(i) ==
    <<StructureTranslation[1] + ModuleTranslation(grid, modules[i])[1],
      StructureTranslation[2] + ModuleTranslation(grid, modules[i])[2]>>

(***************************************************************************)
(* C27  Module placement agrees with the coordinate conversion.  The       *)
(* centre of every module built from the layout is mapped by               *)
(* Structure::world_to_grid to the module's own inner_grid_pos, so that an *)
(* agent at the centre of a CommandCenter passes the position test of the  *)
(* take-control action.                                                    *)
(***************************************************************************)
C27_PlacementAgrees ==
    phase = "InGame" =>
        \A i \in DOMAIN modules :
            LET cell == world_to_grid(grid, ModuleCentre(i), StructureTransform)
            IN /\ cell = modules[i].inner_grid_pos
               /\ modules[i].module_type = "CommandCenter"
                      => IsCommandCenterAt(modules[i], cell)

(***************************************************************************)
(* Claims about the loading of the assets (SpecAssets).                    *)
(***************************************************************************)
\* A step of print_on_load or of a state transition out of LoadingAssets.
LoadingStep == phase = "LoadingAssets" /\ blob_assets' = blob_assets

(***************************************************************************)
(* C26  Asset-loading gate.  The state goes from LoadingAssets to          *)
(* BuildingGrid only when the level blob and the structures blob are both  *)
(* loaded; while one of them at least is pending, print_on_load leaves the *)
(* state LoadingAssets and does not fail, whichever load completes first.  *)
(***************************************************************************)
C26_LoadingGate ==
    [][LoadingStep =>
          /\ phase' = "BuildingGrid" => blob_assets = AssetStore
          /\ blob_assets # AssetStore => phase' = "LoadingAssets"]_vars

(***************************************************************************)
(* Claims about the player inside a structure (SpecInside).                *)
(***************************************************************************)
\* A run of detect_player_inside_structure_system.
DetectStep == inside_pc = "detect" /\ inside_pc' = "make_child"

\* The events sent by the step.
NewStructureEvents ==
    SubSeq(structure_interaction_events', Len(structure_interaction_events) + 1,
           Len(structure_interaction_events'))

\* The events are well formed from a player inside `inside`, and leave the
\* player inside `last`: PlayerEntered{s} comes when the player is inside no
\* structure and puts it inside s, PlayerExited{s} comes when the player is
\* inside s and puts it inside none.
RECURSIVE WellFormedEvents(_, _, _)
WellFormedEvents(inside, events, last) ==
    IF events = << >> THEN inside = last
    ELSE LET e == Head(events)
         IN IF e.kind = "PlayerEntered"
            THEN inside = None /\ WellFormedEvents(e.structure_entity, Tail(events), last)
            ELSE inside = e.structure_entity /\ WellFormedEvents(None, Tail(events), last)

(***************************************************************************)
(* C29  Enter/exit events alternate.  The StructureInteractionEvents of    *)
(* the player are well formed: PlayerEntered{s} is sent only when the      *)
(* player was inside no structure, PlayerExited{s} only when               *)
(* inside_structure was s, so that two PlayerEntered never come without a  *)
(* PlayerExited between them, and inside_structure is Some(s) exactly when *)
(* the last event was PlayerEntered{s}; for one structure or several,      *)
(* two whose grids both contain the player included.                       *)
(***************************************************************************)
C29_EventsAlternate ==
    [][DetectStep =>
          WellFormedEvents(inside_structure, NewStructureEvents, inside_structure')]_vars

(***************************************************************************)
(* Claims about piloting and movement (SpecMove).                          *)
(***************************************************************************)
\* The structure carries ControlledByPlayer and one of its CommandCenter
\* children has the player of the marker as controller.
PilotedByItsCommandCenter ==
    /\ controlled_by # None
    /\ \E i \in DOMAIN modules :
          /\ modules[i].alive
          /\ modules[i].parent = StructureEntity
          /\ modules[i].module_type = "CommandCenter"
          /\ modules[i].entity_connected = controlled_by

(***************************************************************************)
(* C25  Unique piloted structure.  When a frame begins,                    *)
(* is_controlling_structure is true exactly when the structure carries     *)
(* ControlledByPlayer and a CommandCenter of that structure has the player *)
(* as controller, and the lookup of the controlled structure in the        *)
(* structure move system never fails.                                      *)
(***************************************************************************)
C25_UniquePilot ==
    /\ phase # "Panicked"
    /\ (InGame /\ ran = {}) => (is_controlling_structure <=> PilotedByItsCommandCenter)

\* A run of player_move_system, of structure_move_system.
PlayerMoveStep == "player_move" \notin fixed_ran /\ "player_move" \in fixed_ran'
StructureMoveStep == "structure_move" \notin fixed_ran /\ "structure_move" \in fixed_ran'

\* The Engine modules that are live children of the structure.
EngineChildren ==
    {i \in DOMAIN modules :
        /\ modules[i].alive
        /\ modules[i].parent = StructureEntity
        /\ modules[i].module_type = "Engine"}

\* The step applies the pending Move input to the player: the velocity
\* grows in the direction of the input, up to the maximum speed.
MoveAppliedToPlayer ==
    /\ player_move_unread' = << >>
    /\ player_move_unread # << >> =>
          \/ player_velocity' > player_velocity
          \/ player_velocity' = PLAYER_MAX_SPEED * FIXED_HZ

\* The step applies the pending Move input to the structure.
MoveAppliedToStructure ==
    /\ structure_move_unread' = << >>
    /\ structure_move_unread # << >> =>
          \/ structure_velocity' > structure_velocity
          \/ structure_velocity' = STRUCTURE_MAX_SPEED * FIXED_HZ

\* What holds of every step whether the structure has an Engine or not:
\* while a structure is controlled no step changes the velocity of the
\* player; while none is, no step changes the velocity of the structure and
\* player_move_system applies the Move input to the player.
RoutingByControlState ==
    /\ is_controlling_structure => player_velocity' = player_velocity
    /\ ~is_controlling_structure => structure_velocity' = structure_velocity
    /\ (~is_controlling_structure /\ PlayerMoveStep) => MoveAppliedToPlayer

====
